---- MODULE Spec2Model ----
(***************************************************************************)
(* NovaScribe VN: the narrative state engine.                              *)
(*   - getSceneCategory        (constants.ts, the Scene Classifier)        *)
(*   - StateEvaluator          (evaluateCondition(s), applyEffect(s))      *)
(*   - Simulator               (reset, handleNext, performPoolRoll,        *)
(*                              availableConnections)                      *)
(*   - StateAnalyzer           (isNodeReachable, detectConflicts)          *)
(* JavaScript objects live in a heap (a sequence of records addressed by   *)
(* index); an array of objects is a record [ref, items]: its identity and  *)
(* the addresses of its elements. Copying an object and mutating it in     *)
(* place are therefore different things in the model.                      *)
(***************************************************************************)
EXTENDS Integers, Sequences, FiniteSets, TLC

VARIABLES graph, heap, currentNode, simVariables, log, isProcessingPool, call,
          selectedNodeId, selectedEdgeId, connectingSourceId,
          generatingNodeId, inFlight, now

vars == <<graph, heap, currentNode, simVariables, log, isProcessingPool, call,
          selectedNodeId, selectedEdgeId, connectingSourceId,
          generatingNodeId, inFlight, now>>

simState == <<currentNode, simVariables, log, isProcessingPool>>

\* The editor's state (App): the selection, the source of the connection
\* being dragged, the node whose generation shows as running, the
\* generateNodeContent promises not yet settled, and the clock Date.now()
\* reads. 0 stands for null.
editorState == <<selectedNodeId, selectedEdgeId, connectingSourceId,
                 generatingNodeId, inFlight, now>>

\* useState(null) four times; no promise is pending.
InitEditorState ==
    /\ selectedNodeId = 0
    /\ selectedEdgeId = 0
    /\ connectingSourceId = 0
    /\ generatingNodeId = 0
    /\ inFlight = <<>>
    /\ now = 0

(***************************************************************************)
(* Bounds of the model.                                                    *)
(***************************************************************************)
MaxNodes == 3
MaxEdges == 2

(***************************************************************************)
(* Sequence helpers.                                                       *)
(***************************************************************************)
\* seq.find(x => x.id === id): the index of the first match, 0 if none.
FirstIndexOfId(seq, id) ==
    IF \E i \in 1..Len(seq) : seq[i].id = id
    THEN CHOOSE i \in 1..Len(seq) :
            seq[i].id = id /\ \A j \in 1..(i - 1) : seq[j].id # id
    ELSE 0

Range(seq) == {seq[i] : i \in 1..Len(seq)}

SeqsUpTo(S, n) == UNION {[1..k -> S] : k \in 0..n}

(***************************************************************************)
(* JavaScript values: numbers (integers and NaN), booleans and strings.    *)
(* A string is a sequence of one-character strings.                        *)
(***************************************************************************)
Num(i) == [k |-> "number", n |-> i, s |-> <<>>]
NaN == [k |-> "NaN", n |-> 0, s |-> <<>>]
Bool(b) == [k |-> "boolean", n |-> IF b THEN 1 ELSE 0, s |-> <<>>]
Str(chars) == [k |-> "string", n |-> 0, s |-> chars]

Digits == <<"0", "1", "2", "3", "4", "5", "6", "7", "8", "9">>
IsDigit(c) == \E d \in 1..10 : Digits[d] = c
DigitVal(c) == (CHOOSE d \in 1..10 : Digits[d] = c) - 1

RECURSIVE ParseDigits(_, _)
ParseDigits(chars, acc) ==
    IF chars = <<>> THEN acc
    ELSE ParseDigits(Tail(chars), 10 * acc + DigitVal(Head(chars)))

\* Number(x): booleans become 0/1, "" becomes 0, a string of decimal digits
\* (with an optional sign) its value, any other string NaN.
ToNumber(x) ==
    CASE x.k = "number" -> x
      [] x.k = "NaN" -> NaN
      [] x.k = "boolean" -> Num(x.n)
      [] x.k = "string" ->
            IF x.s = <<>> THEN Num(0)
            ELSE LET signed == Head(x.s) \in {"-", "+"}
                     body == IF signed THEN Tail(x.s) ELSE x.s
                 IN IF body # <<>> /\ \A i \in 1..Len(body) : IsDigit(body[i])
                    THEN Num(IF Head(x.s) = "-" THEN 0 - ParseDigits(body, 0)
                             ELSE ParseDigits(body, 0))
                    ELSE NaN

\* ToBoolean(x), as used by !x.
ToBoolean(x) ==
    CASE x.k = "number" -> x.n # 0
      [] x.k = "NaN" -> FALSE
      [] x.k = "boolean" -> x.n = 1
      [] x.k = "string" -> x.s # <<>>

\* a == b (abstract equality on primitives).
LooseEq(a, b) ==
    IF a.k = "string" /\ b.k = "string" THEN a.s = b.s
    ELSE LET x == ToNumber(a)
             y == ToNumber(b)
         IN x.k = "number" /\ y.k = "number" /\ x.n = y.n

NumLt(a, b) ==
    LET x == ToNumber(a)
        y == ToNumber(b)
    IN x.k = "number" /\ y.k = "number" /\ x.n < y.n

NumLe(a, b) ==
    LET x == ToNumber(a)
        y == ToNumber(b)
    IN x.k = "number" /\ y.k = "number" /\ x.n <= y.n

NumAdd(a, b) ==
    LET x == ToNumber(a)
        y == ToNumber(b)
    IN IF x.k = "number" /\ y.k = "number" THEN Num(x.n + y.n) ELSE NaN

NumSub(a, b) ==
    LET x == ToNumber(a)
        y == ToNumber(b)
    IN IF x.k = "number" /\ y.k = "number" THEN Num(x.n - y.n) ELSE NaN

(***************************************************************************)
(* The heap: objs are the VNVariable objects, arrays counts the arrays     *)
(* allocated so far (array identities are 1..arrays).                      *)
(***************************************************************************)
Array(ref, items) == [ref |-> ref, items |-> items]

\* The objects an array holds, in order.
Deref(variables, h) ==
    [i \in 1..Len(variables.items) |-> h.objs[variables.items[i]]]

\* The value of a variable list: what a deep comparison sees.
ValueOf(variables, h) == Deref(variables, h)

\* variables.map(f): a new array of new objects, newObjs[i] made from the
\* i-th element.
MapToNew(variables, newObjs, h) ==
    [heap |-> [objs |-> h.objs \o newObjs, arrays |-> h.arrays + 1],
     vars |-> Array(h.arrays + 1,
                    [i \in 1..Len(variables.items) |-> Len(h.objs) + i])]

(***************************************************************************)
(* State Evaluator.                                                        *)
(***************************************************************************)
Operators == {"==", "!=", ">", "<", ">=", "<="}
Operations == {"set", "add", "subtract", "toggle"}

\* Faulty variant, for sensitivity: a condition on an unknown variable counts as met.
evaluateCondition_MissingIsTrue(condition, variables, h) ==
    LET vs == Deref(variables, h)
        i == FirstIndexOfId(vs, condition.variableId)
    IN IF i = 0 THEN TRUE
       ELSE LET currentValue == vs[i].currentValue
                targetValue == condition.value
            IN CASE condition.operator = "==" -> LooseEq(currentValue, targetValue)
                 [] condition.operator = "!=" -> ~LooseEq(currentValue, targetValue)
                 [] condition.operator = ">" -> NumLt(targetValue, currentValue)
                 [] condition.operator = "<" -> NumLt(currentValue, targetValue)
                 [] condition.operator = ">=" -> NumLe(targetValue, currentValue)
                 [] condition.operator = "<=" -> NumLe(currentValue, targetValue)
                 [] OTHER -> TRUE

evaluateCondition(condition, variables, h) ==
    LET vs == Deref(variables, h)
        i == FirstIndexOfId(vs, condition.variableId)
    IN IF i = 0 THEN FALSE
       ELSE LET currentValue == vs[i].currentValue
                targetValue == condition.value
            IN CASE condition.operator = "==" -> LooseEq(currentValue, targetValue)
                 [] condition.operator = "!=" -> ~LooseEq(currentValue, targetValue)
                 [] condition.operator = ">" -> NumLt(targetValue, currentValue)
                 [] condition.operator = "<" -> NumLt(currentValue, targetValue)
                 [] condition.operator = ">=" -> NumLe(targetValue, currentValue)
                 [] condition.operator = "<=" -> NumLe(currentValue, targetValue)
                 [] OTHER -> TRUE

evaluateConditions(conditions, variables, h) ==
    \A c \in 1..Len(conditions) : evaluateCondition(conditions[c], variables, h)

\* Faulty variant, for sensitivity: set accumulates instead of assigning.
EffectValue_SetAdds(effect, cur) ==
    CASE effect.operation = "set" -> NumAdd(cur, effect.value)
      [] effect.operation = "add" -> NumAdd(cur, effect.value)
      [] effect.operation = "subtract" -> NumSub(cur, effect.value)
      [] effect.operation = "toggle" -> Bool(~ToBoolean(cur))
      [] OTHER -> cur

\* Faulty variant, for sensitivity: toggle assigns the effect's value.
EffectValue_ToggleAssigns(effect, cur) ==
    CASE effect.operation = "set" -> effect.value
      [] effect.operation = "add" -> NumAdd(cur, effect.value)
      [] effect.operation = "subtract" -> NumSub(cur, effect.value)
      [] effect.operation = "toggle" -> effect.value
      [] OTHER -> cur

\* The value an effect leaves in a variable whose currentValue is cur.
EffectValue(effect, cur) ==
    CASE effect.operation = "set" -> effect.value
      [] effect.operation = "add" -> NumAdd(cur, effect.value)
      [] effect.operation = "subtract" -> NumSub(cur, effect.value)
      [] effect.operation = "toggle" -> Bool(~ToBoolean(cur))
      [] OTHER -> cur

cloneVariables(variables, h) == MapToNew(variables, Deref(variables, h), h)

\* Faulty variant, for sensitivity: the variable is changed in place, in the caller's array.
applyEffect_InPlace(effect, variables, h) ==
    LET i == FirstIndexOfId(Deref(variables, h), effect.variableId)
    IN IF i = 0 THEN [heap |-> h, vars |-> variables]
       ELSE LET a == variables.items[i]
            IN [heap |-> [h EXCEPT !.objs[a].currentValue =
                                       EffectValue(effect, h.objs[a].currentValue)],
                vars |-> variables]

applyEffect(effect, variables, h) ==
    LET new == MapToNew(variables, Deref(variables, h), h)
        i == FirstIndexOfId(Deref(new.vars, new.heap), effect.variableId)
    IN IF i = 0 THEN new
       ELSE LET a == new.vars.items[i]
            IN [heap |-> [new.heap EXCEPT !.objs[a].currentValue =
                                       EffectValue(effect, new.heap.objs[a].currentValue)],
                vars |-> new.vars]

\* effects.forEach(eff => { newVars = applyEffect(eff, newVars) }), from acc.
RECURSIVE ForEachEffect(_, _)
ForEachEffect(effects, acc) ==
    IF effects = <<>> THEN acc
    ELSE ForEachEffect(Tail(effects), applyEffect(Head(effects), acc.vars, acc.heap))

\* Faulty variant, for sensitivity: every effect is applied to the first clone instead of to the
\* result of the effect before it, so only the last effect shows.
RECURSIVE ForEachEffect_NoCarry(_, _, _)
ForEachEffect_NoCarry(effects, first, acc) ==
    IF effects = <<>> THEN acc
    ELSE ForEachEffect_NoCarry(Tail(effects), first,
                               applyEffect(Head(effects), first.vars, acc.heap))

applyEffects_NoCarry(effects, variables, h) ==
    ForEachEffect_NoCarry(effects, cloneVariables(variables, h),
                          cloneVariables(variables, h))

applyEffects(effects, variables, h) ==
    ForEachEffect(effects, cloneVariables(variables, h))

(***************************************************************************)
(* Scene Classifier.                                                       *)
(***************************************************************************)
SceneCategory == {"STANDARD", "FREE", "START", "END", "BRANCH"}

\* graph.nodes.find(n => n.id === nodeId): the index of the node, 0 if none.
FindNode(nodeId, g) == FirstIndexOfId(g.nodes, nodeId)

\* Faulty variant, for sensitivity: the topology is looked at first, isBranch only as the fallback.
getSceneCategory_TopologyFirst(nodeId, g) ==
    LET i == FindNode(nodeId, g)
        hasIncoming == \E e \in 1..Len(g.edges) : g.edges[e].target = nodeId
        hasOutgoing == \E e \in 1..Len(g.edges) : g.edges[e].source = nodeId
    IN IF hasIncoming /\ hasOutgoing THEN "STANDARD"
       ELSE IF ~hasIncoming /\ hasOutgoing THEN "START"
       ELSE IF hasIncoming /\ ~hasOutgoing THEN "END"
       ELSE IF i # 0 /\ g.nodes[i].isBranch THEN "BRANCH"
       ELSE "FREE"

\* Faulty variant, for sensitivity: incoming and outgoing edges are taken from the wrong end.
getSceneCategory_SwappedEnds(nodeId, g) ==
    LET i == FindNode(nodeId, g)
        hasIncoming == \E e \in 1..Len(g.edges) : g.edges[e].source = nodeId
        hasOutgoing == \E e \in 1..Len(g.edges) : g.edges[e].target = nodeId
    IN IF i # 0 /\ g.nodes[i].isBranch THEN "BRANCH"
       ELSE IF hasIncoming /\ hasOutgoing THEN "STANDARD"
       ELSE IF ~hasIncoming /\ ~hasOutgoing THEN "FREE"
       ELSE IF ~hasIncoming /\ hasOutgoing THEN "START"
       ELSE IF hasIncoming /\ ~hasOutgoing THEN "END"
       ELSE "FREE"

\* Faulty variant, for sensitivity: the "neither" test is missing, so an isolated node falls to START.
getSceneCategory_NoFreeTest(nodeId, g) ==
    LET i == FindNode(nodeId, g)
        hasIncoming == \E e \in 1..Len(g.edges) : g.edges[e].target = nodeId
        hasOutgoing == \E e \in 1..Len(g.edges) : g.edges[e].source = nodeId
    IN IF i # 0 /\ g.nodes[i].isBranch THEN "BRANCH"
       ELSE IF hasIncoming /\ hasOutgoing THEN "STANDARD"
       ELSE IF ~hasIncoming THEN "START"
       ELSE "END"

getSceneCategory(nodeId, g) ==
    LET i == FindNode(nodeId, g)
        hasIncoming == \E e \in 1..Len(g.edges) : g.edges[e].target = nodeId
        hasOutgoing == \E e \in 1..Len(g.edges) : g.edges[e].source = nodeId
    IN IF i # 0 /\ g.nodes[i].isBranch THEN "BRANCH"
       ELSE IF hasIncoming /\ hasOutgoing THEN "STANDARD"
       ELSE IF ~hasIncoming /\ ~hasOutgoing THEN "FREE"
       ELSE IF ~hasIncoming /\ hasOutgoing THEN "START"
       ELSE IF hasIncoming /\ ~hasOutgoing THEN "END"
       ELSE "FREE"

(***************************************************************************)
(* Calls of the Scene Classifier on a graph.                               *)
(***************************************************************************)
NoCall == [op |-> "none", arg |-> 0, result |-> 0]

NodeIds == 1..MaxNodes
\* One id more than the nodes have: the id of no node (a dangling reference).
AnyNodeId == 1..(MaxNodes + 1)

\* label is the node's id: labels only appear in the trace.
Node(i, branch, pre, eff) ==
    [id |-> i, label |-> i, isBranch |-> branch, isPoolMember |-> FALSE,
     preconditions |-> pre, effects |-> eff]

PlainNode(i, branch) == Node(i, branch, <<>>, <<>>)

\* weight is optional: hasWeight tells whether the edge declares one.
\* conditions is optional too: hasConditions tells whether the edge has them.
Edge(i, s, t, hasW, w) ==
    [id |-> i, source |-> s, target |-> t, hasWeight |-> hasW, weight |-> w,
     hasConditions |-> FALSE, conditions |-> <<>>]

PlainEdge(i, s, t) == Edge(i, s, t, FALSE, 0)

ClassifyGraphs ==
    {[nodes |-> [i \in NodeIds |-> PlainNode(i, br[i])],
      edges |-> [e \in DOMAIN ends |-> PlainEdge(e, ends[e][1], ends[e][2])],
      variables |-> Array(1, <<>>)] :
        br \in [NodeIds -> BOOLEAN],
        ends \in SeqsUpTo(AnyNodeId \X AnyNodeId, MaxEdges)}

\* The Simulator's state after construction: useState(null), useState([]),
\* useState([]), useState(false). Array 1 is graph.variables, array 2 the
\* initial simVariables.
InitIdle ==
    /\ currentNode = 0
    /\ simVariables = Array(2, <<>>)
    /\ log = <<>>
    /\ isProcessingPool = FALSE
    /\ call = NoCall

InitClassify ==
    /\ graph \in ClassifyGraphs
    /\ heap = [objs |-> <<>>, arrays |-> 2]
    /\ InitIdle
    /\ InitEditorState

\* One call per behaviour: the classifier is a pure function of its inputs.
Classify(nodeId) ==
    /\ call.op = "none"
    /\ call' = [op |-> "getSceneCategory", arg |-> nodeId,
                result |-> getSceneCategory(nodeId, graph)]
    /\ UNCHANGED <<graph, heap, simState, editorState>>

NextClassify == \E nodeId \in AnyNodeId : Classify(nodeId)

SpecClassify == InitClassify /\ [][NextClassify]_vars

(***************************************************************************)
(* Calls of the State Evaluator on a variable list (graph.variables).      *)
(***************************************************************************)
MaxEffects == 2

TypeOfValue(x) == IF x.k = "NaN" THEN "number" ELSE x.k

Variable(id, def, cur) ==
    [id |-> id, name |-> "var", type |-> TypeOfValue(def),
     defaultValue |-> def, currentValue |-> cur, min |-> 0, max |-> 100]

Condition(id, op, val) == [variableId |-> id, operator |-> op, value |-> val]
Effect(id, op, val) == [variableId |-> id, operation |-> op, value |-> val]

EvalValues == {Num(0), Num(2), Bool(FALSE), Bool(TRUE), Str(<<"5">>), Str(<<"a">>)}

\* Variable ids are 1..n in a list of n variables; 3 is the id of no variable.
EvalVarIds == {1, 2, 3}

EvalVarLists ==
    {[i \in DOMAIN cur |-> Variable(i, Num(100), cur[i])] :
        cur \in SeqsUpTo(EvalValues, 2)}

\* "~=" stands for an operator outside the six of VNCondition.
EvalConditions ==
    {Condition(id, op, val) :
        id \in EvalVarIds, op \in Operators \cup {"~="},
        val \in {Num(0), Num(5), Bool(TRUE), Str(<<"5">>), Str(<<"a">>)}}

EvalEffects ==
    {Effect(id, ov[1], ov[2]) :
        id \in EvalVarIds,
        ov \in {<<"set", Num(5)>>, <<"set", Bool(TRUE)>>, <<"add", Num(5)>>,
                <<"add", Num(3)>>, <<"subtract", Num(3)>>, <<"toggle", Bool(TRUE)>>}}

EmptyGraph(variables) == [nodes |-> <<>>, edges |-> <<>>, variables |-> variables]

InitEval ==
    /\ \E vs \in EvalVarLists :
          /\ heap = [objs |-> vs, arrays |-> 2]
          /\ graph = EmptyGraph(Array(1, [i \in DOMAIN vs |-> i]))
    /\ InitIdle
    /\ InitEditorState

\* One call per behaviour: the evaluator's functions are called on the
\* variable list and the heap as they are; the call record keeps the
\* arguments, the heap before the call and the result.
EvaluateCondition(condition) ==
    /\ call.op = "none"
    /\ call' = [op |-> "evaluateCondition",
                arg |-> [condition |-> condition, variables |-> graph.variables,
                         heap |-> heap],
                result |-> evaluateCondition(condition, graph.variables, heap)]
    /\ UNCHANGED <<graph, heap, simState, editorState>>

ApplyEffect(effect) ==
    /\ call.op = "none"
    /\ LET r == applyEffect(effect, graph.variables, heap)
       IN /\ heap' = r.heap
          /\ call' = [op |-> "applyEffect",
                      arg |-> [effects |-> <<effect>>, variables |-> graph.variables,
                               heap |-> heap],
                      result |-> r.vars]
    /\ UNCHANGED <<graph, simState, editorState>>

ApplyEffects(effects) ==
    /\ call.op = "none"
    /\ LET r == applyEffects(effects, graph.variables, heap)
       IN /\ heap' = r.heap
          /\ call' = [op |-> "applyEffects",
                      arg |-> [effects |-> effects, variables |-> graph.variables,
                               heap |-> heap],
                      result |-> r.vars]
    /\ UNCHANGED <<graph, simState, editorState>>

NextEval ==
    \/ \E condition \in EvalConditions : EvaluateCondition(condition)
    \/ \E effect \in EvalEffects : ApplyEffect(effect)
    \/ \E effects \in SeqsUpTo(EvalEffects, MaxEffects) : ApplyEffects(effects)

SpecEval == InitEval /\ [][NextEval]_vars

(***************************************************************************)
(* Simulator (components/Simulator.tsx).                                   *)
(* currentNode is the id of the current node, 0 for null.                  *)
(***************************************************************************)
MaxLog == 3

\* Garbage collection: only the objects and arrays that graph.variables and
\* simVariables hold stay, renumbered in address order.
LiveObjs(roots) == UNION {Range(roots[r].items) : r \in 1..Len(roots)}
LiveRefs(roots) == {roots[r].ref : r \in 1..Len(roots)}
NewAddr(a, roots) == Cardinality({b \in LiveObjs(roots) : b <= a})
NewRef(x, roots) == Cardinality({y \in LiveRefs(roots) : y <= x})

CompactHeap(h, roots) ==
    [objs |-> [i \in 1..Cardinality(LiveObjs(roots)) |->
                  h.objs[CHOOSE a \in LiveObjs(roots) : NewAddr(a, roots) = i]],
     arrays |-> Cardinality(LiveRefs(roots))]

CompactArray(arr, roots) ==
    Array(NewRef(arr.ref, roots),
          [i \in 1..Len(arr.items) |-> NewAddr(arr.items[i], roots)])

LogInit == [kind |-> "Timeline initialized.", node |-> 0]
LogBeat(label) == [kind |-> "Beat", node |-> label]
LogRoll == [kind |-> "[Roll: Selection from Random Pool]", node |-> 0]

\* graph.nodes.find(n => getSceneCategory(n.id, graph) === START): the index
\* of the node, 0 if none.
FindStartNode(g) ==
    IF \E i \in 1..Len(g.nodes) : getSceneCategory(g.nodes[i].id, g) = "START"
    THEN CHOOSE i \in 1..Len(g.nodes) :
            /\ getSceneCategory(g.nodes[i].id, g) = "START"
            /\ \A j \in 1..(i - 1) : getSceneCategory(g.nodes[j].id, g) # "START"
    ELSE 0

\* Faulty variant, for sensitivity: the graph's own variables are reset in place and become
\* the snapshot.
ResetVariables_InPlace(variables, h) ==
    [heap |-> [h EXCEPT !.objs =
                  [a \in 1..Len(h.objs) |->
                      IF a \in Range(variables.items)
                      THEN [h.objs[a] EXCEPT !.currentValue = h.objs[a].defaultValue]
                      ELSE h.objs[a]]],
     vars |-> variables]

\* Faulty variant, for sensitivity: the snapshot starts from the design-time currentValue.
ResetVariables_KeepCurrent(variables, h) ==
    MapToNew(variables, Deref(variables, h), h)

\* graph.variables.map(v => ({ ...v, currentValue: v.defaultValue }))
ResetVariables(variables, h) ==
    MapToNew(variables,
             [i \in 1..Len(variables.items) |->
                 [h.objs[variables.items[i]] EXCEPT
                     !.currentValue = h.objs[variables.items[i]].defaultValue]],
             h)

Reset ==
    /\ LET i == FindStartNode(graph)
           r == ResetVariables(graph.variables, heap)
           roots == <<graph.variables, r.vars>>
       IN /\ currentNode' = IF i = 0 THEN 0 ELSE graph.nodes[i].id
          /\ simVariables' = CompactArray(r.vars, roots)
          /\ heap' = CompactHeap(r.heap, roots)
    /\ log' = <<LogInit>>
    /\ isProcessingPool' = FALSE
    /\ call' = [op |-> "reset", arg |-> 0, result |-> 0]
    /\ UNCHANGED <<graph, editorState>>

\* The four ifs of handleNext on one effect and the variable's value.
SimEffectValue(eff, cur) ==
    LET v1 == IF eff.operation = "set" THEN eff.value ELSE cur
        v2 == IF eff.operation = "add" THEN NumAdd(v1, eff.value) ELSE v1
        v3 == IF eff.operation = "subtract" THEN NumSub(v2, eff.value) ELSE v2
        v4 == IF eff.operation = "toggle" THEN Bool(~ToBoolean(v3)) ELSE v3
    IN v4

\* Faulty variant, for sensitivity: an effect on an unknown variable lands on the first variable.
RECURSIVE SimEffectsLoop_MissingHitsFirst(_, _, _)
SimEffectsLoop_MissingHitsFirst(effects, newVars, h) ==
    IF effects = <<>> THEN h
    ELSE LET eff == Head(effects)
             found == FirstIndexOfId(Deref(newVars, h), eff.variableId)
             i == IF found = 0 /\ newVars.items # <<>> THEN 1 ELSE found
             a == newVars.items[i]
         IN SimEffectsLoop_MissingHitsFirst(
                Tail(effects), newVars,
                IF i = 0 THEN h
                ELSE [h EXCEPT !.objs[a].currentValue =
                                  SimEffectValue(eff, h.objs[a].currentValue)])

\* nextNode.effects.forEach(...): each effect changes, in place, the first
\* object of newVars with its variableId, if there is one.
RECURSIVE SimEffectsLoop(_, _, _)
SimEffectsLoop(effects, newVars, h) ==
    IF effects = <<>> THEN h
    ELSE LET eff == Head(effects)
             i == FirstIndexOfId(Deref(newVars, h), eff.variableId)
             a == newVars.items[i]
         IN SimEffectsLoop(
                Tail(effects), newVars,
                IF i = 0 THEN h
                ELSE [h EXCEPT !.objs[a].currentValue =
                                  SimEffectValue(eff, h.objs[a].currentValue)])

\* Faulty variant, for sensitivity: only the first effect of the node is applied.
SimApplyEffects_FirstOnly(effects, newVars, h) ==
    IF effects = <<>> THEN h ELSE SimEffectsLoop(<<Head(effects)>>, newVars, h)

SimApplyEffects(effects, newVars, h) == SimEffectsLoop(effects, newVars, h)

\* Faulty variant, for sensitivity: the current node is set before the target is looked up.
handleNext_SetsBeforeLookup(targetId, st) ==
    LET i == FindNode(targetId, graph)
    IN IF i = 0 THEN [st EXCEPT !.currentNode = targetId]
       ELSE LET nextNode == graph.nodes[i]
                newVars == Array(st.heap.arrays + 1, st.simVariables.items)
                h1 == [st.heap EXCEPT !.arrays = st.heap.arrays + 1]
            IN [currentNode |-> nextNode.id,
                simVariables |-> newVars,
                heap |-> SimApplyEffects(nextNode.effects, newVars, h1),
                log |-> Append(st.log, LogBeat(nextNode.label)),
                isProcessingPool |-> FALSE]

\* The state handleNext(targetId) leaves, from the state st =
\* [currentNode, simVariables, heap, log, isProcessingPool].
\* Faulty variant, for sensitivity: an unknown target still moves the engine (to no node) and is logged.
handleNext_NoGuard(targetId, st) ==
    LET i == FindNode(targetId, graph)
    IN IF i = 0
       THEN [st EXCEPT !.currentNode = 0, !.log = Append(st.log, LogBeat(0))]
       ELSE LET nextNode == graph.nodes[i]
                newVars == Array(st.heap.arrays + 1, st.simVariables.items)
                h1 == [st.heap EXCEPT !.arrays = st.heap.arrays + 1]
            IN [currentNode |-> nextNode.id,
                simVariables |-> newVars,
                heap |-> SimApplyEffects(nextNode.effects, newVars, h1),
                log |-> Append(st.log, LogBeat(nextNode.label)),
                isProcessingPool |-> FALSE]

handleNext(targetId, st) ==
    LET i == FindNode(targetId, graph)
    IN IF i = 0 THEN st
       ELSE LET nextNode == graph.nodes[i]
                newVars == Array(st.heap.arrays + 1, st.simVariables.items)
                h1 == [st.heap EXCEPT !.arrays = st.heap.arrays + 1]
            IN [currentNode |-> nextNode.id,
                simVariables |-> newVars,
                heap |-> SimApplyEffects(nextNode.effects, newVars, h1),
                log |-> Append(st.log, LogBeat(nextNode.label)),
                isProcessingPool |-> FALSE]

SimSt ==
    [currentNode |-> currentNode, simVariables |-> simVariables, heap |-> heap,
     log |-> log, isProcessingPool |-> isProcessingPool]

\* The component's state becomes st (after garbage collection).
Commit(st) ==
    LET roots == <<graph.variables, st.simVariables>>
    IN /\ currentNode' = st.currentNode
       /\ simVariables' = CompactArray(st.simVariables, roots)
       /\ heap' = CompactHeap(st.heap, roots)
       /\ log' = st.log
       /\ isProcessingPool' = st.isProcessingPool

\* The component renders nothing while it is closed, and opening it runs
\* reset: the player's operations exist only once reset has run, which is
\* when the trace is no longer empty.
Opened == log # <<>>

HandleNext(targetId) ==
    /\ Opened
    /\ Len(log) < MaxLog
    /\ Commit(handleNext(targetId, SimSt))
    /\ call' = [op |-> "handleNext", arg |-> targetId, result |-> 0]
    /\ UNCHANGED <<graph, editorState>>

\* e.weight || 10
DefaultWeight == 10
WeightOf(e) == IF e.hasWeight /\ e.weight # 0 THEN e.weight ELSE DefaultWeight

\* graph.edges.filter(e => e.source === id), as indices into graph.edges.
RECURSIVE EdgesFrom(_, _, _)
EdgesFrom(id, g, from) ==
    IF from > Len(g.edges) THEN <<>>
    ELSE (IF g.edges[from].source = id THEN <<from>> ELSE <<>>)
         \o EdgesFrom(id, g, from + 1)

RECURSIVE TotalWeight(_, _)
TotalWeight(edges, g) ==
    IF edges = <<>> THEN 0
    ELSE WeightOf(g.edges[Head(edges)]) + TotalWeight(Tail(edges), g)

\* Faulty variant, for sensitivity: the draw is not reduced by the weights passed over.
RECURSIVE RollScan_NoSubtract(_, _, _, _)
RollScan_NoSubtract(edges, g, random, fallback) ==
    IF edges = <<>> THEN fallback
    ELSE LET w == WeightOf(g.edges[Head(edges)])
         IN IF random < w THEN Head(edges)
            ELSE RollScan_NoSubtract(Tail(edges), g, random, fallback)

\* The for loop of performPoolRoll: the edge the draw falls on, edges[0]
\* when the loop ends without a break.
RECURSIVE RollScan(_, _, _, _)
RollScan(edges, g, random, fallback) ==
    IF edges = <<>> THEN fallback
    ELSE LET w == WeightOf(g.edges[Head(edges)])
         IN IF random < w THEN Head(edges)
            ELSE RollScan(Tail(edges), g, random - w, fallback)

\* random stands for Math.random() * totalWeight: weights are integers, so
\* the scan only depends on its integer part.
PerformPoolRoll(poolId, random) ==
    /\ Opened
    /\ Len(log) + 1 < MaxLog
    /\ LET edges == EdgesFrom(poolId, graph, 1)
       IN IF edges = <<>>
          THEN /\ isProcessingPool' = FALSE
               /\ UNCHANGED <<currentNode, simVariables, heap, log>>
               /\ random = 0
               /\ call' = [op |-> "performPoolRoll",
                           arg |-> [poolId |-> poolId, random |-> random],
                           result |-> 0]
          ELSE /\ random \in 0..(TotalWeight(edges, graph) - 1)
               /\ LET selectedEdge == RollScan(edges, graph, random, Head(edges))
                  IN /\ Commit(handleNext(graph.edges[selectedEdge].target,
                                          [SimSt EXCEPT !.log = Append(log, LogRoll)]))
                     /\ call' = [op |-> "performPoolRoll",
                                 arg |-> [poolId |-> poolId, random |-> random],
                                 result |-> selectedEdge]
    /\ UNCHANGED <<graph, editorState>>

\* One precondition as the availableConnections filter evaluates it.
SimConditionHolds(cond, variables, h) ==
    LET vs == Deref(variables, h)
        i == FirstIndexOfId(vs, cond.variableId)
    IN IF i = 0 THEN TRUE
       ELSE LET curr == vs[i].currentValue
                target == cond.value
            IN CASE cond.operator = "==" -> LooseEq(curr, target)
                 [] cond.operator = "!=" -> ~LooseEq(curr, target)
                 [] cond.operator = ">" -> NumLt(target, curr)
                 [] cond.operator = "<" -> NumLt(curr, target)
                 [] cond.operator = ">=" -> NumLe(target, curr)
                 [] cond.operator = "<=" -> NumLe(curr, target)
                 [] OTHER -> TRUE

\* Whether the edge with index e is offered.
ConnectionOffered(e) ==
    LET t == FindNode(graph.edges[e].target, graph)
    IN /\ currentNode # 0
       /\ graph.edges[e].source = currentNode
       /\ t # 0
       /\ \A c \in 1..Len(graph.nodes[t].preconditions) :
             SimConditionHolds(graph.nodes[t].preconditions[c], simVariables, heap)

\* availableConnections, as the set of indices of the offered edges (they
\* are shown in the order of graph.edges).
availableConnections == {e \in 1..Len(graph.edges) : ConnectionOffered(e)}

(***************************************************************************)
(* The simulator on a graph of two nodes (ids 1 and 2; 3 is the id of no   *)
(* node) and two variables (ids 1 and 2; 3 is the id of no variable).      *)
(***************************************************************************)
SimNodeIds == {1, 2}
SimAnyNodeId == {1, 2, 3}
SimEdgeCounts == {0, 1, 2}

\* 1 is a number ("trust"), 2 a boolean; the design-time currentValue
\* differs from the defaultValue.
SimVariables == <<Variable(1, Num(0), Num(7)), Variable(2, Bool(FALSE), Bool(TRUE))>>

\* The preconditions and effects a node may carry.
SimRules ==
    {[pre |-> <<>>, eff |-> <<>>],
     [pre |-> <<Condition(1, ">=", Num(10))>>,
      eff |-> <<Effect(1, "add", Num(10))>>],
     [pre |-> <<Condition(3, "==", Num(0)), Condition(1, "<", Num(10))>>,
      eff |-> <<Effect(2, "toggle", Bool(TRUE)), Effect(1, "add", Num(5)),
                Effect(3, "set", Num(1)), Effect(1, "subtract", Num(3))>>]}

\* Either end of an edge may be the id of no node.
SimEdgeLists == UNION {[1..k -> SimAnyNodeId \X SimAnyNodeId] : k \in SimEdgeCounts}

\* Every edge declares the weight 1, so that a pool roll has one draw per edge.
SimGraphs ==
    {[nodes |-> [i \in SimNodeIds |-> Node(i, br[i], rule[i].pre, rule[i].eff)],
      edges |-> [e \in DOMAIN ends |-> Edge(e, ends[e][1], ends[e][2], TRUE, 1)],
      variables |-> Array(1, [i \in DOMAIN SimVariables |-> i])] :
        br \in [SimNodeIds -> BOOLEAN],
        rule \in [SimNodeIds -> SimRules],
        ends \in SimEdgeLists}

Init ==
    /\ graph \in SimGraphs
    /\ heap = [objs |-> SimVariables, arrays |-> 2]
    /\ InitIdle
    /\ InitEditorState

Next ==
    \/ Reset
    \/ \E targetId \in SimAnyNodeId : HandleNext(targetId)
    \/ \E poolId \in SimAnyNodeId :
          \E random \in 0..TotalWeight(EdgesFrom(poolId, graph, 1), graph) :
             PerformPoolRoll(poolId, random)

Spec == Init /\ [][Next]_vars

(***************************************************************************)
(* Pool rolls on weighted edges: three nodes, the edges 1 -> 2, 2 -> 1,    *)
(* 1 -> 3 and 1 -> 1, each with no weight or a weight of 0, 10 or 80.      *)
(***************************************************************************)
RollEnds == <<<<1, 2>>, <<2, 1>>, <<1, 3>>, <<1, 1>>>>

\* 0 stands for "declares no weight", w + 1 for the declared weight w.
RollWeights == {0, 1, 11, 81}

InitRoll ==
    /\ \E w \in [DOMAIN RollEnds -> RollWeights] :
          graph = [nodes |-> [i \in 1..3 |-> PlainNode(i, FALSE)],
                   edges |-> [e \in DOMAIN RollEnds |->
                                 Edge(e, RollEnds[e][1], RollEnds[e][2],
                                      w[e] # 0, IF w[e] # 0 THEN w[e] - 1 ELSE 0)],
                   variables |-> Array(1, <<>>)]
    /\ heap = [objs |-> <<>>, arrays |-> 2]
    /\ InitIdle
    /\ InitEditorState

NextRoll ==
    \/ Reset
    \/ \E poolId \in 1..3 :
          \E random \in 0..TotalWeight(EdgesFrom(poolId, graph, 1), graph) :
             PerformPoolRoll(poolId, random)

SpecRoll == InitRoll /\ [][NextRoll]_vars

(***************************************************************************)
(* Graph Analyzer (StateAnalyzer): isNodeReachable and detectConflicts.    *)
(***************************************************************************)
\* graph.nodes.filter(n => !nodesWithIncoming.has(n.id)).map(n => n.id)
RECURSIVE StartNodeIds(_, _)
StartNodeIds(g, from) ==
    IF from > Len(g.nodes) THEN <<>>
    ELSE (IF \E e \in 1..Len(g.edges) : g.edges[e].target = g.nodes[from].id
          THEN <<>> ELSE <<g.nodes[from].id>>)
         \o StartNodeIds(g, from + 1)

\* The queue before the loop: the start nodes, or the first node when there
\* is no start node and the graph has nodes.
InitialQueue(g) ==
    LET startNodes == StartNodeIds(g, 1)
    IN IF startNodes = <<>> /\ Len(g.nodes) > 0 THEN <<g.nodes[1].id>>
       ELSE startNodes

\* outgoing.forEach(edge => { if (!visited.has(edge.target)) queue.push(...) })
RECURSIVE PushTargets(_, _, _, _)
PushTargets(outgoing, g, visited, queue) ==
    IF outgoing = <<>> THEN queue
    ELSE PushTargets(Tail(outgoing), g, visited,
                     IF g.edges[Head(outgoing)].target \in visited THEN queue
                     ELSE Append(queue, g.edges[Head(outgoing)].target))

\* The while loop of isNodeReachable.
RECURSIVE ReachLoop(_, _, _, _)
ReachLoop(queue, visited, targetNodeId, g) ==
    IF queue = <<>> THEN FALSE
    ELSE LET current == Head(queue)
         IN IF current = targetNodeId THEN TRUE
            ELSE IF current \in visited
            THEN ReachLoop(Tail(queue), visited, targetNodeId, g)
            ELSE ReachLoop(PushTargets(EdgesFrom(current, g, 1), g,
                                       visited \cup {current}, Tail(queue)),
                           visited \cup {current}, targetNodeId, g)

\* Faulty variant, for sensitivity: a dequeued id is expanded even when it was visited.
RECURSIVE ReachExpansions_NoVisitedTest(_, _, _, _)
ReachExpansions_NoVisitedTest(queue, visited, targetNodeId, g) ==
    IF queue = <<>> THEN <<>>
    ELSE LET current == Head(queue)
         IN IF current = targetNodeId THEN <<>>
            ELSE <<current>>
                 \o ReachExpansions_NoVisitedTest(
                        PushTargets(EdgesFrom(current, g, 1), g,
                                    visited \cup {current}, Tail(queue)),
                        visited \cup {current}, targetNodeId, g)

\* The ids the while loop expands (adds to visited and pushes the targets
\* of), in order.
RECURSIVE ReachExpansions(_, _, _, _)
ReachExpansions(queue, visited, targetNodeId, g) ==
    IF queue = <<>> THEN <<>>
    ELSE LET current == Head(queue)
         IN IF current = targetNodeId THEN <<>>
            ELSE IF current \in visited
            THEN ReachExpansions(Tail(queue), visited, targetNodeId, g)
            ELSE <<current>>
                 \o ReachExpansions(
                        PushTargets(EdgesFrom(current, g, 1), g,
                                    visited \cup {current}, Tail(queue)),
                        visited \cup {current}, targetNodeId, g)

\* Faulty variant, for sensitivity: without the first-node fallback.
isNodeReachable_NoFallback(targetNodeId, g) ==
    ReachLoop(StartNodeIds(g, 1), {}, targetNodeId, g)

isNodeReachable(targetNodeId, g) ==
    ReachLoop(InitialQueue(g), {}, targetNodeId, g)

\* A conflict record. The fixed words of message and suggestion are left
\* out: message keeps the label and the contradictions it is built from.
Conflict(kind, of, type, severity, nodeIds, hasEdgeIds, edgeIds, label, contradictions) ==
    [id |-> <<kind, of>>, type |-> type, severity |-> severity,
     nodeIds |-> nodeIds, hasEdgeIds |-> hasEdgeIds, edgeIds |-> edgeIds,
     message |-> [label |-> label, contradictions |-> contradictions]]

\* Faulty variant, for sensitivity: every node with an incoming edge that is not a start node's
\* direct successor is taken as unreachable (no search).
RECURSIVE UnreachableConflicts_NoSearch(_, _)
UnreachableConflicts_NoSearch(g, from) ==
    IF from > Len(g.nodes) THEN <<>>
    ELSE LET node == g.nodes[from]
             roots == Range(StartNodeIds(g, 1))
         IN (IF node.id \notin roots
                /\ ~\E e \in 1..Len(g.edges) :
                       g.edges[e].source \in roots /\ g.edges[e].target = node.id
             THEN <<Conflict("unreachable", node.id, "unreachable", "warning",
                             <<node.id>>, FALSE, <<>>, node.label, <<>>)>>
             ELSE <<>>)
            \o UnreachableConflicts_NoSearch(g, from + 1)

\* 1. Unreachable nodes.
RECURSIVE UnreachableConflicts(_, _)
UnreachableConflicts(g, from) ==
    IF from > Len(g.nodes) THEN <<>>
    ELSE LET node == g.nodes[from]
         IN (IF ~isNodeReachable(node.id, g)
             THEN <<Conflict("unreachable", node.id, "unreachable", "warning",
                             <<node.id>>, FALSE, <<>>, node.label, <<>>)>>
             ELSE <<>>)
            \o UnreachableConflicts(g, from + 1)

\* Faulty variant, for sensitivity: every node without an outgoing edge that is not a pool member
\* is a dead end, isolated ones included.
RECURSIVE DeadEndConflicts_IgnoresIncoming(_, _)
DeadEndConflicts_IgnoresIncoming(g, from) ==
    IF from > Len(g.nodes) THEN <<>>
    ELSE LET node == g.nodes[from]
             hasOutgoing == \E e \in 1..Len(g.edges) : g.edges[e].source = node.id
         IN (IF ~hasOutgoing /\ ~node.isPoolMember
             THEN <<Conflict("deadend", node.id, "dead_end", "warning",
                             <<node.id>>, FALSE, <<>>, node.label, <<>>)>>
             ELSE <<>>)
            \o DeadEndConflicts_IgnoresIncoming(g, from + 1)

\* 2. Dead ends. isEndNode is the code's name for "has no incoming edge".
RECURSIVE DeadEndConflicts(_, _)
DeadEndConflicts(g, from) ==
    IF from > Len(g.nodes) THEN <<>>
    ELSE LET node == g.nodes[from]
             hasOutgoing == \E e \in 1..Len(g.edges) : g.edges[e].source = node.id
             isEndNode == ~\E e \in 1..Len(g.edges) : g.edges[e].target = node.id
         IN (IF ~hasOutgoing /\ ~isEndNode /\ ~node.isPoolMember
             THEN <<Conflict("deadend", node.id, "dead_end", "warning",
                             <<node.id>>, FALSE, <<>>, node.label, <<>>)>>
             ELSE <<>>)
            \o DeadEndConflicts(g, from + 1)

\* a === b on primitives; typeof x === 'number'.
StrictEq(a, b) == a.k # "NaN" /\ a = b
IsNumber(x) == x.k \in {"number", "NaN"}

\* Faulty variant, for sensitivity: equal thresholds are not taken as contradictory.
areConditionsContradictory_StrictOnly(c1, c2) ==
    /\ c1.variableId = c2.variableId
    /\ \/ /\ StrictEq(c1.value, c2.value)
          /\ \/ (c1.operator = "==" /\ c2.operator = "!=")
             \/ (c1.operator = "!=" /\ c2.operator = "==")
       \/ /\ IsNumber(c1.value) /\ IsNumber(c2.value)
          /\ \/ (c1.operator = ">" /\ c2.operator = "<" /\ NumLt(c2.value, c1.value))
             \/ (c1.operator = "<" /\ c2.operator = ">" /\ NumLt(c1.value, c2.value))
             \/ (c1.operator = ">=" /\ c2.operator = "<" /\ NumLt(c2.value, c1.value))
             \/ (c1.operator = "<" /\ c2.operator = ">=" /\ NumLt(c1.value, c2.value))

\* Faulty variant, for sensitivity: x > a with x <= b is checked as well.
areConditionsContradictory_AlsoAtMost(c1, c2) ==
    /\ c1.variableId = c2.variableId
    /\ \/ /\ StrictEq(c1.value, c2.value)
          /\ \/ (c1.operator = "==" /\ c2.operator = "!=")
             \/ (c1.operator = "!=" /\ c2.operator = "==")
       \/ /\ IsNumber(c1.value) /\ IsNumber(c2.value)
          /\ \/ (c1.operator = ">" /\ c2.operator = "<" /\ NumLe(c2.value, c1.value))
             \/ (c1.operator = "<" /\ c2.operator = ">" /\ NumLe(c1.value, c2.value))
             \/ (c1.operator = ">=" /\ c2.operator = "<" /\ NumLe(c2.value, c1.value))
             \/ (c1.operator = "<" /\ c2.operator = ">=" /\ NumLe(c1.value, c2.value))
             \/ (c1.operator = ">" /\ c2.operator = "<=" /\ NumLe(c2.value, c1.value))

areConditionsContradictory(c1, c2) ==
    /\ c1.variableId = c2.variableId
    /\ \/ /\ StrictEq(c1.value, c2.value)
          /\ \/ (c1.operator = "==" /\ c2.operator = "!=")
             \/ (c1.operator = "!=" /\ c2.operator = "==")
       \/ /\ IsNumber(c1.value) /\ IsNumber(c2.value)
          /\ \/ (c1.operator = ">" /\ c2.operator = "<" /\ NumLe(c2.value, c1.value))
             \/ (c1.operator = "<" /\ c2.operator = ">" /\ NumLe(c1.value, c2.value))
             \/ (c1.operator = ">=" /\ c2.operator = "<" /\ NumLe(c2.value, c1.value))
             \/ (c1.operator = "<" /\ c2.operator = ">=" /\ NumLe(c1.value, c2.value))

\* The keys of byVariable, in insertion order.
RECURSIVE GroupKeys(_, _)
GroupKeys(conds, keys) ==
    IF conds = <<>> THEN keys
    ELSE GroupKeys(Tail(conds),
                   IF Head(conds).variableId \in Range(keys) THEN keys
                   ELSE Append(keys, Head(conds).variableId))

\* byVariable.get(varId)
GroupOf(conds, varId) == SelectSeq(conds, LAMBDA c : c.variableId = varId)

\* One entry of contradictions: `${varId} ${op} ${value} ... ${op} ${value}`.
PairText(varId, c1, c2) ==
    [varId |-> varId, first |-> <<c1.operator, c1.value>>,
     second |-> <<c2.operator, c2.value>>]

\* Faulty variant, for sensitivity: the inner loop starts at 0, so a pair is seen from both sides.
RECURSIVE PairScan_BothOrders(_, _, _, _)
PairScan_BothOrders(conds, varId, i, j) ==
    IF i > Len(conds) THEN <<>>
    ELSE IF j > Len(conds) THEN PairScan_BothOrders(conds, varId, i + 1, 1)
    ELSE (IF i # j /\ areConditionsContradictory(conds[i], conds[j])
          THEN <<PairText(varId, conds[i], conds[j])>> ELSE <<>>)
         \o PairScan_BothOrders(conds, varId, i, j + 1)

\* for (i ...) for (j = i + 1 ...) over one group.
RECURSIVE PairScan(_, _, _, _)
PairScan(conds, varId, i, j) ==
    IF i > Len(conds) THEN <<>>
    ELSE IF j > Len(conds) THEN PairScan(conds, varId, i + 1, i + 2)
    ELSE (IF areConditionsContradictory(conds[i], conds[j])
          THEN <<PairText(varId, conds[i], conds[j])>> ELSE <<>>)
         \o PairScan(conds, varId, i, j + 1)

\* byVariable.forEach((conds, varId) => ...), over the keys that are left.
RECURSIVE GroupScan(_, _)
GroupScan(keys, conds) ==
    IF keys = <<>> THEN <<>>
    ELSE LET group == GroupOf(conds, Head(keys))
         IN (IF Len(group) >= 2 THEN PairScan(group, Head(keys), 1, 2) ELSE <<>>)
            \o GroupScan(Tail(keys), conds)

\* The contradictions array of one list of conditions.
ContradictionsOf(conds) == GroupScan(GroupKeys(conds, <<>>), conds)

RECURSIVE findContradictoryPreconditions(_, _)
findContradictoryPreconditions(g, from) ==
    IF from > Len(g.nodes) THEN <<>>
    ELSE LET node == g.nodes[from]
             contradictions == ContradictionsOf(node.preconditions)
         IN (IF Len(contradictions) > 0
             THEN <<[nodeId |-> node.id, contradictions |-> contradictions]>>
             ELSE <<>>)
            \o findContradictoryPreconditions(g, from + 1)

\* Faulty variant, for sensitivity: an edge is reported as soon as it has two conditions.
RECURSIVE findEdgeContradictions_AnyTwo(_, _)
findEdgeContradictions_AnyTwo(g, from) ==
    IF from > Len(g.edges) THEN <<>>
    ELSE LET edge == g.edges[from]
         IN (IF edge.hasConditions /\ Len(edge.conditions) >= 2
             THEN <<[edgeId |-> edge.id,
                     contradictions |-> ContradictionsOf(edge.conditions)]>>
             ELSE <<>>)
            \o findEdgeContradictions_AnyTwo(g, from + 1)

RECURSIVE findEdgeContradictions(_, _)
findEdgeContradictions(g, from) ==
    IF from > Len(g.edges) THEN <<>>
    ELSE LET edge == g.edges[from]
         IN (IF ~edge.hasConditions \/ Len(edge.conditions) = 0 THEN <<>>
             ELSE LET contradictions == ContradictionsOf(edge.conditions)
                  IN IF Len(contradictions) > 0
                     THEN <<[edgeId |-> edge.id, contradictions |-> contradictions]>>
                     ELSE <<>>)
            \o findEdgeContradictions(g, from + 1)

\* 3. Contradictory preconditions: one conflict per entry of
\* findContradictoryPreconditions.
NodeContradictionConflicts(g) ==
    LET found == findContradictoryPreconditions(g, 1)
    IN [k \in 1..Len(found) |->
          LET i == FindNode(found[k].nodeId, g)
          IN Conflict("contradiction", found[k].nodeId, "contradictory", "error",
                      <<found[k].nodeId>>, FALSE, <<>>,
                      IF i # 0 THEN g.nodes[i].label ELSE found[k].nodeId,
                      found[k].contradictions)]

\* 4. Edge-level contradictory conditions.
EdgeContradictionConflicts(g) ==
    LET found == findEdgeContradictions(g, 1)
    IN [k \in 1..Len(found) |->
          LET e == FirstIndexOfId(g.edges, found[k].edgeId)
          IN Conflict("edge-contradiction", found[k].edgeId, "contradictory", "error",
                      <<g.edges[e].source, g.edges[e].target>>,
                      TRUE, <<found[k].edgeId>>, 0, found[k].contradictions)]

\* Faulty variant, for sensitivity: the dead-end check runs first.
detectConflicts_DeadEndsFirst(g) ==
    DeadEndConflicts(g, 1) \o UnreachableConflicts(g, 1)
    \o NodeContradictionConflicts(g) \o EdgeContradictionConflicts(g)

detectConflicts(g) ==
    UnreachableConflicts(g, 1) \o DeadEndConflicts(g, 1)
    \o NodeContradictionConflicts(g) \o EdgeContradictionConflicts(g)

(***************************************************************************)
(* Calls of the Graph Analyzer on a graph. The graphs are of three kinds:  *)
(* every topology of up to MaxNodes nodes with up to two edges; two nodes  *)
(* and one edge with a list of conditions on the second node or on the     *)
(* edge; three nodes and two edges where each node and each edge may carry *)
(* a contradictory pair.                                                   *)
(***************************************************************************)
AnalyzerEdgeCounts == {0, 1, 2}

AnalyzerNode(i, pool, pre) ==
    [PlainNode(i, FALSE) EXCEPT !.isPoolMember = pool, !.preconditions = pre]

AnalyzerEdge(i, s, t, hasC, conds) ==
    [PlainEdge(i, s, t) EXCEPT !.hasConditions = hasC, !.conditions = conds]

AnalyzerGraph(nodes, edges) ==
    [nodes |-> nodes, edges |-> edges, variables |-> Array(1, <<>>)]

\* graph is a topology: nodes 1..n, pool members among them, no conditions.
InitTopologyGraph ==
    \E n \in 0..MaxNodes : \E pool \in [1..n -> BOOLEAN] :
       \E k \in AnalyzerEdgeCounts : \E ends \in [1..k -> AnyNodeId \X AnyNodeId] :
          graph = AnalyzerGraph(
                     [i \in 1..n |-> AnalyzerNode(i, pool[i], <<>>)],
                     [e \in 1..k |->
                         AnalyzerEdge(e, ends[e][1], ends[e][2], FALSE, <<>>)])

\* Conditions on the variables 1 and 2, with numbers and a string as values.
RuleConditions ==
    {Condition(id, op, val) :
        id \in {1, 2}, op \in Operators,
        val \in {Num(10), Num(12), Str(<<"1", "0">>)}}

ThresholdConditions ==
    {Condition(id, op, Num(10)) : id \in {1, 2}, op \in {">", "<", "==", "!="}}

RuleLists == SeqsUpTo(RuleConditions, 2) \cup [1..3 -> ThresholdConditions]

\* graph is 1 -> 2 with a list of conditions on node 2 or on the edge.
InitRuleGraph ==
    \E onNode \in BOOLEAN : \E conds \in RuleLists :
       graph = AnalyzerGraph(
                  <<AnalyzerNode(1, FALSE, <<>>),
                    AnalyzerNode(2, FALSE, IF onNode THEN conds ELSE <<>>)>>,
                  <<AnalyzerEdge(1, 1, 2, ~onNode, IF onNode THEN <<>> ELSE conds)>>)

\* v == 5 together with v != 5.
ContradictoryPair == <<Condition(1, "==", Num(5)), Condition(1, "!=", Num(5))>>

\* graph has three nodes and two edges, each with or without the pair.
InitMixedGraph ==
    \E pre \in [1..3 -> BOOLEAN] : \E con \in [1..2 -> BOOLEAN] :
       \E ends \in [1..2 -> (1..4) \X (1..4)] :
          graph = AnalyzerGraph(
                     [i \in 1..3 |->
                         AnalyzerNode(i, FALSE,
                                      IF pre[i] THEN ContradictoryPair ELSE <<>>)],
                     [e \in 1..2 |->
                         AnalyzerEdge(e, ends[e][1], ends[e][2], con[e],
                                      IF con[e] THEN ContradictoryPair ELSE <<>>)])

InitAnalyze ==
    /\ \/ InitTopologyGraph
       \/ InitRuleGraph
       \/ InitMixedGraph
    /\ heap = [objs |-> <<>>, arrays |-> 2]
    /\ InitIdle
    /\ InitEditorState

\* One call per behaviour: the analyzer's functions are pure.
IsNodeReachable(targetNodeId) ==
    /\ call.op = "none"
    /\ call' = [op |-> "isNodeReachable", arg |-> targetNodeId,
                result |-> isNodeReachable(targetNodeId, graph),
                expanded |-> ReachExpansions(InitialQueue(graph), {},
                                             targetNodeId, graph)]
    /\ UNCHANGED <<graph, heap, simState, editorState>>

DetectConflicts ==
    /\ call.op = "none"
    /\ call' = [op |-> "detectConflicts", arg |-> 0,
                result |-> detectConflicts(graph)]
    /\ UNCHANGED <<graph, heap, simState, editorState>>

NextAnalyze ==
    \/ \E targetNodeId \in AnyNodeId : IsNodeReachable(targetNodeId)
    \/ DetectConflicts

SpecAnalyze == InitAnalyze /\ [][NextAnalyze]_vars

(***************************************************************************)
(* Calls of the Graph Analyzer on malformed graphs: up to three nodes with *)
(* the ids 1 and 2 (so ids repeat), up to two edges that all have the id 1 *)
(* between the ids 1, 2 and 3 (3 is the id of no node): cycles, self-loops,*)
(* parallel and dangling edges.                                            *)
(***************************************************************************)
InitMalformedGraph ==
    \E n \in 0..3 : \E ids \in [1..n -> {1, 2}] : \E pre \in BOOLEAN :
       \E k \in AnalyzerEdgeCounts :
          \E ends \in [1..k -> (1..3) \X (1..3)] : \E con \in [1..k -> BOOLEAN] :
             graph = AnalyzerGraph(
                        [i \in 1..n |->
                            AnalyzerNode(ids[i], FALSE,
                                         IF pre /\ i = 1 THEN ContradictoryPair
                                         ELSE <<>>)],
                        [e \in 1..k |->
                            AnalyzerEdge(1, ends[e][1], ends[e][2], con[e],
                                         IF con[e] THEN ContradictoryPair ELSE <<>>)])

InitMalformed ==
    /\ InitMalformedGraph
    /\ heap = [objs |-> <<>>, arrays |-> 2]
    /\ InitIdle
    /\ InitEditorState

NextMalformed ==
    \/ \E targetNodeId \in 1..3 : IsNodeReachable(targetNodeId)
    \/ DetectConflicts

SpecMalformed == InitMalformed /\ [][NextMalformed]_vars

(***************************************************************************)
(* Claims about the Scene Classifier (checked under SpecClassify).         *)
(***************************************************************************)
ClassifiedNode ==
    /\ call.op = "getSceneCategory"
    /\ \E i \in 1..Len(graph.nodes) : graph.nodes[i].id = call.arg

ClassifiedIsBranch ==
    \E i \in 1..Len(graph.nodes) :
        graph.nodes[i].id = call.arg /\ graph.nodes[i].isBranch

EdgeInto(id) == \E e \in 1..Len(graph.edges) : graph.edges[e].target = id
EdgeOutOf(id) == \E e \in 1..Len(graph.edges) : graph.edges[e].source = id
SelfLoopAt(id) ==
    \E e \in 1..Len(graph.edges) :
        graph.edges[e].source = id /\ graph.edges[e].target = id

\* C5: classify(n) is one of the five categories for every node n, and a node
\* whose isBranch is true classifies as BRANCH whatever edges it has.
C5_FiveCategoriesBranchFirst ==
    ClassifiedNode =>
        /\ call.result \in SceneCategory
        /\ ClassifiedIsBranch => call.result = "BRANCH"

C5_Witness ==
    /\ ClassifiedNode
    /\ ClassifiedIsBranch
    /\ EdgeInto(call.arg)
    /\ EdgeOutOf(call.arg)
    /\ call.result = "BRANCH"

\* C6: for a node whose isBranch is not true, the category is STANDARD iff
\* it has an incoming and an outgoing edge, START iff only outgoing, END iff
\* only incoming, FREE iff neither; a self-loop counts as both.
C6_TopologyDecidesCategory ==
    (ClassifiedNode /\ ~ClassifiedIsBranch) =>
        /\ call.result = "STANDARD" <=> (EdgeInto(call.arg) /\ EdgeOutOf(call.arg))
        /\ call.result = "START" <=> (~EdgeInto(call.arg) /\ EdgeOutOf(call.arg))
        /\ call.result = "END" <=> (EdgeInto(call.arg) /\ ~EdgeOutOf(call.arg))
        /\ call.result = "FREE" <=> (~EdgeInto(call.arg) /\ ~EdgeOutOf(call.arg))
        /\ SelfLoopAt(call.arg) => call.result = "STANDARD"

\* The middle node of the chain 1 -> 2 -> 3.
C6_Witness ==
    /\ ClassifiedNode
    /\ ~ClassifiedIsBranch
    /\ Len(graph.edges) = 2
    /\ graph.edges[1].source = 1 /\ graph.edges[1].target = 2
    /\ graph.edges[2].source = 2 /\ graph.edges[2].target = 3
    /\ call.arg = 2
    /\ call.result = "STANDARD"

\* C7 as stated: every node with no incoming and no outgoing edge
\* classifies as FREE.
C7_Original ==
    (ClassifiedNode /\ ~EdgeInto(call.arg) /\ ~EdgeOutOf(call.arg)) =>
        call.result = "FREE"

\* C7 as amended: a node with no incoming and no outgoing edge classifies as
\* FREE unless its isBranch is true (then it is BRANCH).
C7_IsolatedNonBranchIsFree ==
    (ClassifiedNode /\ ~EdgeInto(call.arg) /\ ~EdgeOutOf(call.arg)) =>
        call.result = (IF ClassifiedIsBranch THEN "BRANCH" ELSE "FREE")

C7_Witness ==
    /\ ClassifiedNode
    /\ ~ClassifiedIsBranch
    /\ graph.edges # <<>>
    /\ ~EdgeInto(call.arg)
    /\ ~EdgeOutOf(call.arg)
    /\ call.result = "FREE"

(***************************************************************************)
(* Claims about the State Evaluator (checked under SpecEval).              *)
(***************************************************************************)
ApplyCall == call.op \in {"applyEffect", "applyEffects"}

\* C8: evaluateCondition is false for every condition whose variableId is
\* the id of no variable of the list, whatever the operator (one outside
\* the six included) and the value.
C8_UnknownVariableIsFalse ==
    (/\ call.op = "evaluateCondition"
     /\ \A i \in 1..Len(call.arg.variables.items) :
           heap.objs[call.arg.variables.items[i]].id # call.arg.condition.variableId)
    => call.result = FALSE

C8_Witness ==
    /\ call.op = "evaluateCondition"
    /\ call.arg.variables.items # <<>>
    /\ call.arg.condition.variableId = 3
    /\ call.arg.condition.operator = "~="
    /\ call.result = FALSE

\* C9: applyEffect and applyEffects leave every object that existed before
\* the call as it was, return a new array made of new objects, and
\* applyEffects([], vars) is value-equal to vars.
C9_InputsUntouched ==
    [][(call'.op \in {"applyEffect", "applyEffects"}) =>
          /\ Len(heap'.objs) >= Len(heap.objs)
          /\ \A a \in 1..Len(heap.objs) : heap'.objs[a] = heap.objs[a]
          /\ call'.arg.variables = graph.variables
          /\ call'.result.ref \notin 1..heap.arrays
          /\ call'.result.ref # call'.arg.variables.ref
          /\ \A i \in 1..Len(call'.result.items) :
                /\ call'.result.items[i] \notin 1..Len(heap.objs)
                /\ call'.result.items[i] \notin Range(call'.arg.variables.items)
          /\ (call'.op = "applyEffects" /\ call'.arg.effects = <<>>) =>
                ValueOf(call'.result, heap') = ValueOf(graph.variables, heap)
      ]_vars

\* An effect changed a value in the result while the input object keeps its own.
C9_Witness ==
    /\ ApplyCall
    /\ \E i \in 1..Len(call.result.items) :
          /\ heap.objs[call.result.items[i]].currentValue
                # call.arg.heap.objs[call.arg.variables.items[i]].currentValue
          /\ heap.objs[call.arg.variables.items[i]]
                = call.arg.heap.objs[call.arg.variables.items[i]]

\* C10: applyEffects is a left-to-right fold: applyEffects(a \o b, v) equals
\* applyEffects(b, applyEffects(a, v)) for every split of the effect list;
\* two adds of x and y on the same numeric variable raise it by x + y.
C10_ApplyEffectsIsFold ==
    call.op = "applyEffects" =>
        LET effects == call.arg.effects
            n == Len(effects)
        IN /\ \A k \in 0..n :
                 LET r1 == applyEffects(SubSeq(effects, 1, k), call.arg.variables,
                                        call.arg.heap)
                     r2 == applyEffects(SubSeq(effects, k + 1, n), r1.vars, r1.heap)
                 IN ValueOf(r2.vars, r2.heap) = ValueOf(call.result, heap)
           /\ \A i \in 1..Len(call.result.items) :
                 LET before == call.arg.heap.objs[call.arg.variables.items[i]]
                     after == heap.objs[call.result.items[i]]
                 IN (/\ n = 2
                     /\ effects[1].operation = "add" /\ effects[2].operation = "add"
                     /\ effects[1].variableId = before.id
                     /\ effects[2].variableId = before.id
                     /\ FirstIndexOfId(Deref(call.arg.variables, call.arg.heap),
                                       before.id) = i
                     /\ before.currentValue.k = "number"
                     /\ effects[1].value.k = "number" /\ effects[2].value.k = "number")
                    => after.currentValue
                          = Num(before.currentValue.n + effects[1].value.n
                                + effects[2].value.n)

\* add 5 then add 3 on a variable holding 2 gives 10.
C10_Witness ==
    /\ call.op = "applyEffects"
    /\ call.arg.effects = <<Effect(1, "add", Num(5)), Effect(1, "add", Num(3))>>
    /\ Len(call.result.items) >= 1
    /\ call.arg.heap.objs[call.arg.variables.items[1]].currentValue = Num(2)
    /\ heap.objs[call.result.items[1]].currentValue = Num(10)

\* The index, in the list a call was given, of the variable its first effect
\* is about (0 if there is none), and the objects of that list.
CallInput == Deref(call.arg.variables, call.arg.heap)
CallTarget == FirstIndexOfId(CallInput, call.arg.effects[1].variableId)

\* C11: a set effect is idempotent: applyEffect(e, applyEffect(e, v)) is
\* value-equal to applyEffect(e, v), and after applyEffect(e, v) the target
\* variable's currentValue is e.value itself.
C11_SetIsIdempotent ==
    (call.op = "applyEffect" /\ call.arg.effects[1].operation = "set") =>
        LET e == call.arg.effects[1]
            twice == applyEffect(e, call.result, heap)
        IN /\ ValueOf(twice.vars, twice.heap) = ValueOf(call.result, heap)
           /\ CallTarget # 0 =>
                 heap.objs[call.result.items[CallTarget]].currentValue = e.value

\* set 5 on a variable that held the string "a".
C11_Witness ==
    /\ call.op = "applyEffect"
    /\ call.arg.effects[1] = Effect(1, "set", Num(5))
    /\ CallTarget = 1
    /\ CallInput[1].currentValue = Str(<<"a">>)
    /\ heap.objs[call.result.items[1]].currentValue = Num(5)

\* C12: on a variable whose currentValue is a boolean, one toggle gives the
\* negated value and a second toggle gives back a list value-equal to the
\* original.
C12_ToggleTwiceRestores ==
    (/\ call.op = "applyEffect"
     /\ call.arg.effects[1].operation = "toggle"
     /\ CallTarget # 0
     /\ CallInput[CallTarget].currentValue.k = "boolean") =>
        LET e == call.arg.effects[1]
            twice == applyEffect(e, call.result, heap)
        IN /\ heap.objs[call.result.items[CallTarget]].currentValue
                 = Bool(CallInput[CallTarget].currentValue = Bool(FALSE))
           /\ ValueOf(twice.vars, twice.heap) = CallInput

\* The second variable held true and holds false after one toggle.
C12_Witness ==
    /\ call.op = "applyEffect"
    /\ call.arg.effects[1].operation = "toggle"
    /\ CallTarget = 2
    /\ CallInput[2].currentValue = Bool(TRUE)
    /\ heap.objs[call.result.items[2]].currentValue = Bool(FALSE)

(***************************************************************************)
(* Claims about the Simulator (checked under Spec).                        *)
(***************************************************************************)
\* The edges the State Evaluator's semantics makes legal from the current
\* node: source = current node, the target exists, and evaluateConditions
\* holds of the target's preconditions on the current snapshot.
LegalByEvaluator ==
    {e \in 1..Len(graph.edges) :
        LET t == FindNode(graph.edges[e].target, graph)
        IN /\ graph.edges[e].source = currentNode
           /\ t # 0
           /\ evaluateConditions(graph.nodes[t].preconditions, simVariables, heap)}

\* C1: with a current node, the transitions offered are exactly the edges
\* from it whose target exists and whose target's preconditions hold under
\* evaluateConditions (a precondition on an unknown variable being false).
C1_OfferedAreLegalByEvaluator ==
    currentNode # 0 => availableConnections = LegalByEvaluator

\* C2: handleNext to an existing node t makes t current, leaves the values
\* applyEffects(t.effects, snapshot) gives, and appends one trace entry.
C2_StepAppliesTargetEffects ==
    [][(call'.op = "handleNext" /\ FindNode(call'.arg, graph) # 0) =>
          LET t == graph.nodes[FindNode(call'.arg, graph)]
              r == applyEffects(t.effects, simVariables, heap)
          IN /\ currentNode' = t.id
             /\ ValueOf(simVariables', heap') = ValueOf(r.vars, r.heap)
             /\ Len(log') = Len(log) + 1
             /\ SubSeq(log', 1, Len(log)) = log
             /\ log'[Len(log')] = LogBeat(t.label)
      ]_vars

\* trust = 0, the target's effect is add 10, the snapshot shows trust = 10.
C2_Witness ==
    /\ call.op = "handleNext"
    /\ FindNode(call.arg, graph) # 0
    /\ graph.nodes[FindNode(call.arg, graph)].effects = <<Effect(1, "add", Num(10))>>
    /\ currentNode = call.arg
    /\ log = <<LogInit, LogBeat(call.arg)>>
    /\ heap.objs[simVariables.items[1]].defaultValue = Num(0)
    /\ heap.objs[simVariables.items[1]].currentValue = Num(10)

\* C3: after reset the current node is the first node the classifier labels
\* START (null if none), every variable of the snapshot holds its
\* defaultValue, and the trace is the initial entry alone.
C3_ResetRestoresEntryState ==
    call.op = "reset" =>
        /\ \/ /\ currentNode = 0
              /\ \A i \in 1..Len(graph.nodes) :
                    getSceneCategory(graph.nodes[i].id, graph) # "START"
           \/ \E i \in 1..Len(graph.nodes) :
                 /\ currentNode = graph.nodes[i].id
                 /\ getSceneCategory(graph.nodes[i].id, graph) = "START"
                 /\ \A j \in 1..(i - 1) :
                       getSceneCategory(graph.nodes[j].id, graph) # "START"
        /\ Len(simVariables.items) = Len(graph.variables.items)
        /\ \A i \in 1..Len(simVariables.items) :
              /\ heap.objs[simVariables.items[i]].id
                    = heap.objs[graph.variables.items[i]].id
              /\ heap.objs[simVariables.items[i]].currentValue
                    = heap.objs[graph.variables.items[i]].defaultValue
        /\ log = <<LogInit>>

\* The entry node is the second node, and a design-time value differs from
\* the default the snapshot holds.
C3_Witness ==
    /\ call.op = "reset"
    /\ currentNode = 2
    /\ \E i \in 1..Len(simVariables.items) :
          /\ heap.objs[graph.variables.items[i]].currentValue
                # heap.objs[graph.variables.items[i]].defaultValue
          /\ heap.objs[simVariables.items[i]].currentValue
                = heap.objs[graph.variables.items[i]].defaultValue

\* C4: handleNext with a target id that is the id of no node changes
\* neither the current node, nor the snapshot, nor the trace.
C4_UnknownTargetIsNoOp ==
    [][(call'.op = "handleNext" /\ FindNode(call'.arg, graph) = 0) =>
          /\ currentNode' = currentNode
          /\ simVariables' = simVariables
          /\ heap' = heap
          /\ log' = log
          /\ isProcessingPool' = isProcessingPool
      ]_vars

C4_Witness ==
    /\ call.op = "handleNext"
    /\ FindNode(call.arg, graph) = 0
    /\ currentNode # 0
    /\ Len(log) >= 2

\* Whether the snapshot has a variable with this id.
KnownVariable(id) == FirstIndexOfId(Deref(simVariables, heap), id) # 0

\* The effects of a list that are about a variable of the snapshot.
KnownEffects(effects) == SelectSeq(effects, LAMBDA e : KnownVariable(e.variableId))

\* C13: applyEffect with an effect on a variable the list does not have
\* returns a list value-equal to the input, for each of the four operations;
\* in the simulator a step to a node with such an effect succeeds, and the
\* snapshot is the one the node's other effects alone give.
C13_UnknownVariableEffectIsNoOp ==
    /\ [](\A id \in EvalVarIds : \A op \in Operations : \A val \in {Num(1), Bool(TRUE)} :
            ~KnownVariable(id) =>
               LET r == applyEffect(Effect(id, op, val), simVariables, heap)
               IN ValueOf(r.vars, r.heap) = ValueOf(simVariables, heap))
    /\ [][(/\ call'.op = "handleNext"
            /\ FindNode(call'.arg, graph) # 0
            /\ KnownEffects(graph.nodes[FindNode(call'.arg, graph)].effects)
                  # graph.nodes[FindNode(call'.arg, graph)].effects) =>
              LET t == graph.nodes[FindNode(call'.arg, graph)]
                  r == applyEffects(KnownEffects(t.effects), simVariables, heap)
              IN /\ currentNode' = t.id
                 /\ log' = Append(log, LogBeat(t.label))
                 /\ Len(simVariables'.items) = Len(simVariables.items)
                 /\ ValueOf(simVariables', heap') = ValueOf(r.vars, r.heap)
          ]_vars

\* A step to a node whose effects include set 1 on the unknown variable 3:
\* trust went from 0 to 5 - 3 = 2, the flag was toggled, nothing else changed.
C13_Witness ==
    /\ call.op = "handleNext"
    /\ FindNode(call.arg, graph) # 0
    /\ \E k \in 1..Len(graph.nodes[FindNode(call.arg, graph)].effects) :
          graph.nodes[FindNode(call.arg, graph)].effects[k] = Effect(3, "set", Num(1))
    /\ ~KnownVariable(3)
    /\ currentNode = call.arg
    /\ log = <<LogInit, LogBeat(call.arg)>>
    /\ heap.objs[simVariables.items[1]].currentValue = Num(2)
    /\ heap.objs[simVariables.items[2]].currentValue = Bool(TRUE)

(***************************************************************************)
(* Claims about the Graph Analyzer (checked under SpecAnalyze).            *)
(***************************************************************************)
GraphNodeIds == {graph.nodes[i].id : i \in 1..Len(graph.nodes)}

\* The nodes with no incoming edge, and the set the search starts from.
RootIds == {id \in GraphNodeIds : ~EdgeInto(id)}
StartSet ==
    IF RootIds # {} THEN RootIds
    ELSE IF graph.nodes # <<>> THEN {graph.nodes[1].id}
    ELSE {}

\* The ids at the end of a directed path of edges (of any length, 0
\* included) that starts in S.
RECURSIVE PathEnds(_)
PathEnds(S) ==
    LET T == S \cup {graph.edges[e].target :
                        e \in {x \in 1..Len(graph.edges) : graph.edges[x].source \in S}}
    IN IF T = S THEN S ELSE PathEnds(T)

\* C14: isReachable(t, graph) is true iff t is at the end of a directed path
\* of edges (length >= 0) from the start set: the nodes with no incoming
\* edge or, when there is none and the graph has nodes, its first node; so
\* every node with no incoming edge is reachable.
C14_ReachableIffOnPathFromStartSet ==
    call.op = "isNodeReachable" =>
        /\ call.result = (call.arg \in PathEnds(StartSet))
        /\ call.arg \in RootIds => call.result = TRUE

\* No node is without an incoming edge in the cycle 1 -> 2 -> 1: the search
\* starts from the first node and finds the second.
C14_Witness ==
    /\ call.op = "isNodeReachable"
    /\ RootIds = {}
    /\ Len(graph.nodes) = 2
    /\ StartSet = {1}
    /\ EdgeInto(2) /\ EdgeOutOf(2)
    /\ call.arg = 2
    /\ call.result = TRUE

Conflicts == call.result

\* The positions of the conflicts of a kind about a node (or an edge).
UnreachableAt(id) ==
    {k \in 1..Len(Conflicts) :
        Conflicts[k].type = "unreachable" /\ Conflicts[k].nodeIds = <<id>>}
DeadEndAt(id) ==
    {k \in 1..Len(Conflicts) :
        Conflicts[k].type = "dead_end" /\ Conflicts[k].nodeIds = <<id>>}
NodeContradictionAt(id) ==
    {k \in 1..Len(Conflicts) :
        /\ Conflicts[k].type = "contradictory"
        /\ ~Conflicts[k].hasEdgeIds
        /\ Conflicts[k].nodeIds = <<id>>}
EdgeContradictionAt(id) ==
    {k \in 1..Len(Conflicts) :
        Conflicts[k].hasEdgeIds /\ Conflicts[k].edgeIds = <<id>>}

\* C15: detectConflicts reports one warning 'unreachable' conflict, with
\* nodeIds the node alone, for each node isReachable is false of, and none
\* for a reachable node; every 'unreachable' conflict is of that form.
C15_UnreachableIffNotReachable ==
    call.op = "detectConflicts" =>
        /\ \A id \in GraphNodeIds :
              Cardinality(UnreachableAt(id))
                 = (IF isNodeReachable(id, graph) THEN 0 ELSE 1)
        /\ \A k \in 1..Len(Conflicts) :
              Conflicts[k].type = "unreachable" =>
                 /\ Conflicts[k].severity = "warning"
                 /\ \E id \in GraphNodeIds : Conflicts[k].nodeIds = <<id>>

\* Node 1 is the only start node; 2 <-> 3 is a cycle nothing leads into.
C15_Witness ==
    /\ call.op = "detectConflicts"
    /\ Len(graph.nodes) = 3
    /\ RootIds = {1}
    /\ UnreachableAt(1) = {}
    /\ Cardinality(UnreachableAt(2)) = 1
    /\ Cardinality(UnreachableAt(3)) = 1

Satisfies(x2, op, v) ==
    CASE op = ">" -> x2 > 2 * v
      [] op = "<" -> x2 < 2 * v
      [] op = ">=" -> x2 >= 2 * v
      [] op = "<=" -> x2 <= 2 * v
      [] op = "==" -> x2 = 2 * v
      [] OTHER -> x2 # 2 * v

\* The four operator patterns of the numeric check.
RangePatterns == {<<">", "<">>, <<"<", ">">>, <<">=", "<">>, <<"<", ">=">>}

\* No number lies in both ranges: between two integers there is a half, and
\* beyond the smaller and the larger of them there is a number too.
EmptyIntersection(c1, c2) ==
    LET lo == IF c1.value.n < c2.value.n THEN c1.value.n ELSE c2.value.n
        hi == IF c1.value.n < c2.value.n THEN c2.value.n ELSE c1.value.n
    IN ~\E x2 \in (2 * lo - 1)..(2 * hi + 1) :
          Satisfies(x2, c1.operator, c1.value.n) /\ Satisfies(x2, c2.operator, c2.value.n)

\* A contradictory pair as the specification defines it: the same variable
\* and either the same literal with == against !=, or two numbers under one
\* of the four patterns with nothing in the intersection.
Contradicts(c1, c2) ==
    /\ c1.variableId = c2.variableId
    /\ \/ /\ c1.value = c2.value
          /\ {c1.operator, c2.operator} = {"==", "!="}
       \/ /\ c1.value.k = "number" /\ c2.value.k = "number"
          /\ <<c1.operator, c2.operator>> \in RangePatterns
          /\ EmptyIntersection(c1, c2)

\* The contradictory pairs of a list, as pairs of positions.
ContradictoryPairsOf(conds) ==
    {ij \in (1..Len(conds)) \X (1..Len(conds)) :
        ij[1] < ij[2] /\ Contradicts(conds[ij[1]], conds[ij[2]])}

\* Every contradictory pair of conds has its entry in the list, and the list
\* has as many entries as there are pairs.
ReportsEachPairOnce(contradictions, conds) ==
    /\ Len(contradictions) = Cardinality(ContradictoryPairsOf(conds))
    /\ \A ij \in ContradictoryPairsOf(conds) :
          \E k \in 1..Len(contradictions) :
             contradictions[k]
                = PairText(conds[ij[1]].variableId, conds[ij[1]], conds[ij[2]])

\* C17: a node whose preconditions hold a contradictory pair (as v == 5 with
\* v != 5) gets exactly one error 'contradictory' conflict with nodeIds the
\* node alone, which reports each contradictory pair once; a node without
\* such a pair gets none.
C17_NodeContradictionsReportedOnce ==
    call.op = "detectConflicts" =>
        \A i \in 1..Len(graph.nodes) :
           LET id == graph.nodes[i].id
               pre == graph.nodes[i].preconditions
           IN IF ContradictoryPairsOf(pre) = {}
              THEN NodeContradictionAt(id) = {}
              ELSE /\ Cardinality(NodeContradictionAt(id)) = 1
                   /\ \A k \in NodeContradictionAt(id) :
                         /\ Conflicts[k].severity = "error"
                         /\ ReportsEachPairOnce(Conflicts[k].message.contradictions, pre)

\* v == 10, v != 10, v == 10: two contradictory pairs, one conflict.
C17_Witness ==
    /\ call.op = "detectConflicts"
    /\ Len(graph.nodes) = 2
    /\ graph.nodes[2].preconditions
          = <<Condition(1, "==", Num(10)), Condition(1, "!=", Num(10)),
              Condition(1, "==", Num(10))>>
    /\ Cardinality(NodeContradictionAt(2)) = 1
    /\ \A k \in NodeContradictionAt(2) :
          Len(Conflicts[k].message.contradictions) = 2

\* The graph 1 -> 2 whose one list of conditions is conds, on the
\* node (onNode) or on the edge, and whether detectConflicts reports it.
IsRuleGraph(conds, onNode) ==
    /\ Len(graph.nodes) = 2 /\ Len(graph.edges) = 1
    /\ graph.nodes[2].preconditions = (IF onNode THEN conds ELSE <<>>)
    /\ graph.edges[1].hasConditions = ~onNode
    /\ graph.edges[1].conditions = (IF onNode THEN <<>> ELSE conds)

Reported(conflicts) == \E k \in 1..Len(conflicts) : conflicts[k].type = "contradictory"

\* C18: two conditions on one variable with numeric values under one of the
\* patterns (>, <), (<, >), (>=, <), (<, >=) are reported as contradictory
\* iff no number satisfies both, and in either order alike.
C18_RangePairIffEmptyIntersection ==
    call.op = "detectConflicts" =>
        \A onNode \in BOOLEAN :
           LET conds == IF onNode THEN graph.nodes[2].preconditions
                        ELSE graph.edges[1].conditions
           IN (/\ IsRuleGraph(conds, onNode)
               /\ Len(conds) = 2
               /\ conds[1].variableId = conds[2].variableId
               /\ conds[1].value.k = "number" /\ conds[2].value.k = "number"
               /\ <<conds[1].operator, conds[2].operator>> \in RangePatterns) =>
                 LET swapped ==
                        IF onNode
                        THEN [graph EXCEPT !.nodes[2].preconditions =
                                              <<conds[2], conds[1]>>]
                        ELSE [graph EXCEPT !.edges[1].conditions =
                                              <<conds[2], conds[1]>>]
                 IN /\ Reported(Conflicts) <=> EmptyIntersection(conds[1], conds[2])
                    /\ Reported(detectConflicts(swapped)) <=> Reported(Conflicts)

\* x >= 10 with x < 10 is reported.
C18_Witness ==
    /\ call.op = "detectConflicts"
    /\ IsRuleGraph(<<Condition(1, ">=", Num(10)), Condition(1, "<", Num(10))>>, TRUE)
    /\ Reported(Conflicts)

\* C19: an edge gets one error 'contradictory' conflict, with edgeIds the
\* edge and nodeIds its source and target, iff its conditions hold a
\* contradictory pair under the pairwise logic of the node check; an edge
\* without conditions, or with none in the list, gets no conflict.
C19_EdgeContradictionsLikeNodes ==
    call.op = "detectConflicts" =>
        /\ \A e \in 1..Len(graph.edges) :
              LET edge == graph.edges[e]
              IN IF ~edge.hasConditions \/ ContradictoryPairsOf(edge.conditions) = {}
                 THEN EdgeContradictionAt(edge.id) = {}
                 ELSE /\ Cardinality(EdgeContradictionAt(edge.id)) = 1
                      /\ \A k \in EdgeContradictionAt(edge.id) :
                            /\ Conflicts[k].type = "contradictory"
                            /\ Conflicts[k].severity = "error"
                            /\ Conflicts[k].nodeIds = <<edge.source, edge.target>>
                            /\ ReportsEachPairOnce(Conflicts[k].message.contradictions,
                                                   edge.conditions)
        /\ \A k \in 1..Len(Conflicts) :
              Conflicts[k].hasEdgeIds =>
                 \E e \in 1..Len(graph.edges) : Conflicts[k].edgeIds = <<graph.edges[e].id>>

\* An edge into the id of no node with v == 5 and v != 5 on it.
C19_Witness ==
    /\ call.op = "detectConflicts"
    /\ Len(graph.edges) = 2
    /\ graph.edges[2].conditions = ContradictoryPair
    /\ graph.edges[2].source = 1 /\ graph.edges[2].target = 4
    /\ ~graph.edges[1].hasConditions
    /\ EdgeContradictionAt(1) = {}
    /\ \E k \in EdgeContradictionAt(2) : Conflicts[k].nodeIds = <<1, 4>>

\* The check a conflict comes from, and the position in its collection of
\* the node or edge it is about.
CheckOf(c) ==
    CASE c.type = "unreachable" -> 1
      [] c.type = "dead_end" -> 2
      [] c.type = "contradictory" /\ ~c.hasEdgeIds -> 3
      [] OTHER -> 4
PositionOf(c) ==
    IF c.hasEdgeIds THEN FirstIndexOfId(graph.edges, c.edgeIds[1])
    ELSE FirstIndexOfId(graph.nodes, c.nodeIds[1])

\* C20: in the list of detectConflicts the unreachable conflicts come first,
\* then the dead ends, then the node contradictions, then the edge
\* contradictions, and within a check in the order of the collection.
C20_ConflictsInCheckOrder ==
    call.op = "detectConflicts" =>
        \A p \in 1..Len(Conflicts) : \A q \in 1..Len(Conflicts) :
           p < q =>
              \/ CheckOf(Conflicts[p]) < CheckOf(Conflicts[q])
              \/ /\ CheckOf(Conflicts[p]) = CheckOf(Conflicts[q])
                 /\ PositionOf(Conflicts[p]) < PositionOf(Conflicts[q])

\* Two conflicts from each of the four checks.
C20_Witness ==
    /\ call.op = "detectConflicts"
    /\ Len(Conflicts) = 8
    /\ \A c \in 1..4 :
          Cardinality({k \in 1..Len(Conflicts) : CheckOf(Conflicts[k]) = c}) = 2

\* The graph without its dangling edges: the edges whose source and target
\* are both ids of nodes.
WithoutDangling(g) ==
    [g EXCEPT !.edges =
        SelectSeq(g.edges,
                  LAMBDA e : FindNode(e.source, g) # 0 /\ FindNode(e.target, g) # 0)]

NodeConflictsOf(conflicts) == SelectSeq(conflicts, LAMBDA c : ~c.hasEdgeIds)

\* C21: a dangling edge is treated as absent: isReachable of every node and
\* the conflicts of detectConflicts about nodes are what they are on the
\* graph without its dangling edges.
C21_DanglingEdgesAreAbsent ==
    /\ (call.op = "isNodeReachable" /\ call.arg \in GraphNodeIds) =>
          call.result = isNodeReachable(call.arg, WithoutDangling(graph))
    /\ call.op = "detectConflicts" =>
          NodeConflictsOf(Conflicts)
             = NodeConflictsOf(detectConflicts(WithoutDangling(graph)))

\* C25: classify(nodeId, graph) is FREE for every nodeId that is the id of
\* no node of the graph, whatever edges the graph has.
C25_MissingNodeIsFree ==
    (call.op = "getSceneCategory" /\ FindNode(call.arg, graph) = 0) =>
        call.result = "FREE"

\* The operator pairs the contradiction check looks at.
CheckedPatterns == RangePatterns \cup {<<"==", "!=">>, <<"!=", "==">>}

\* C26: only == against != and the four numeric patterns are checked: no
\* pair of conditions under another operator combination (x > 10 with
\* x <= 10, x >= 12 with x <= 10, x == 10 with x == 12) is ever reported by
\* detectConflicts.
C26_OtherCombinationsNeverReported ==
    call.op = "detectConflicts" =>
        /\ \A k \in 1..Len(Conflicts) :
              \A n \in 1..Len(Conflicts[k].message.contradictions) :
                 LET entry == Conflicts[k].message.contradictions[n]
                 IN <<entry.first[1], entry.second[1]>> \in CheckedPatterns
        /\ \A onNode \in BOOLEAN :
              LET conds == IF onNode THEN graph.nodes[2].preconditions
                           ELSE graph.edges[1].conditions
              IN (/\ IsRuleGraph(conds, onNode)
                  /\ Len(conds) = 2
                  /\ <<conds[1].operator, conds[2].operator>> \notin CheckedPatterns) =>
                    ~Reported(Conflicts)

\* x > 10 with x <= 10: nothing satisfies both, nothing is reported.
C26_Witness ==
    /\ call.op = "detectConflicts"
    /\ IsRuleGraph(<<Condition(1, ">", Num(10)), Condition(1, "<=", Num(10))>>, TRUE)
    /\ ~\E x2 \in 19..21 : Satisfies(x2, ">", 10) /\ Satisfies(x2, "<=", 10)
    /\ ~Reported(Conflicts)

\* C22: no simulation operation modifies the graph: its nodes, edges and
\* variable list stay, every variable object of the graph keeps all its
\* fields (currentValue and defaultValue included), and the snapshot shares
\* no object with the graph.
C22_GraphIsNeverModified ==
    [][/\ graph' = graph
       /\ Deref(graph.variables, heap') = Deref(graph.variables, heap)
       /\ Range(simVariables'.items) \cap Range(graph.variables.items) = {}
       /\ simVariables'.ref # graph.variables.ref
      ]_vars

\* After a step the snapshot shows trust = 10 while the graph's variable
\* still holds its design-time 7 and its default 0.
C22_Witness ==
    /\ call.op = "handleNext"
    /\ heap.objs[simVariables.items[1]].currentValue = Num(10)
    /\ heap.objs[graph.variables.items[1]].currentValue = Num(7)
    /\ heap.objs[graph.variables.items[1]].defaultValue = Num(0)

\* The node a step or pool roll went to: its index in graph.nodes, 0 if the
\* operation found none. c is the record of the call.
SteppedTo(c) ==
    IF c.op = "handleNext" THEN FindNode(c.arg, graph)
    ELSE IF c.op = "performPoolRoll" /\ c.result # 0
    THEN FindNode(graph.edges[c.result].target, graph)
    ELSE 0

\* C28: once reset has run, the current node is null or a node of the graph
\* and the snapshot has one entry per graph variable, same ids, same order;
\* a step or pool roll changes nothing but the currentValue of variables
\* that an effect of the node it goes to names.
C28_SnapshotKeepsShape ==
    /\ [](/\ currentNode = 0 \/ FindNode(currentNode, graph) # 0
          /\ Opened =>
                /\ Len(simVariables.items) = Len(graph.variables.items)
                /\ \A i \in 1..Len(simVariables.items) :
                      heap.objs[simVariables.items[i]].id
                         = heap.objs[graph.variables.items[i]].id)
    /\ [][call'.op \in {"handleNext", "performPoolRoll"} =>
             \A i \in 1..Len(simVariables.items) :
                LET before == heap.objs[simVariables.items[i]]
                    after == heap'.objs[simVariables'.items[i]]
                    t == SteppedTo(call')
                IN /\ after = [before EXCEPT !.currentValue = after.currentValue]
                   /\ after.currentValue # before.currentValue =>
                         /\ t # 0
                         /\ \E k \in 1..Len(graph.nodes[t].effects) :
                               graph.nodes[t].effects[k].variableId = before.id
         ]_vars

\* A pool roll went to a node whose one effect is add 10 on trust: trust
\* changed, the flag did not.
C28_Witness ==
    /\ call.op = "performPoolRoll"
    /\ SteppedTo(call) # 0
    /\ graph.nodes[SteppedTo(call)].effects = <<Effect(1, "add", Num(10))>>
    /\ currentNode = graph.nodes[SteppedTo(call)].id
    /\ heap.objs[simVariables.items[1]].currentValue = Num(10)
    /\ heap.objs[simVariables.items[2]]
          = [heap.objs[graph.variables.items[2]] EXCEPT !.currentValue = Bool(FALSE)]

(***************************************************************************)
(* Claims about pool rolls (checked under SpecRoll).                       *)
(***************************************************************************)
\* The outgoing edges of the pool a roll was about, as indices into
\* graph.edges, and the edge the roll selected.
RolledEdges == {e \in 1..Len(graph.edges) : graph.edges[e].source = call.arg.poolId}
Rolled == call.op = "performPoolRoll" /\ RolledEdges # {}

\* w1 + ... + wi: the weights of the outgoing edges up to the edge e, with
\* the weights the roll assigns.
RECURSIVE WeightSum(_)
WeightSum(S) ==
    IF S = {} THEN 0
    ELSE LET e == CHOOSE x \in S : TRUE
         IN WeightOf(graph.edges[e]) + WeightSum(S \ {e})

CumulativeWeight(e) == WeightSum({x \in RolledEdges : x <= e})

\* The declared weights of the outgoing edges, in order; -1 for none.
DeclaredWeights ==
    [n \in 1..Cardinality(RolledEdges) |->
        LET e == CHOOSE x \in RolledEdges :
                    Cardinality({y \in RolledEdges : y <= x}) = n
        IN IF graph.edges[e].hasWeight THEN graph.edges[e].weight ELSE 0 - 1]

\* The place of the selected edge among the outgoing edges.
SelectedPlace == Cardinality({y \in RolledEdges : y <= call.result})

\* C23: a pool roll with a draw r in [0, w1 + ... + wk) selects the first
\* outgoing edge ei with r < w1 + ... + wi, always one of the outgoing
\* edges, and steps to its target; with the weights 10, 10, 80 that is the
\* first edge for r < 10, the second for 10 <= r < 20, the third from 20 on.
C23_RollSelectsByCumulativeWeight ==
    Rolled =>
        LET r == call.arg.random
        IN /\ call.result \in RolledEdges
           /\ r < CumulativeWeight(call.result)
           /\ \A e \in RolledEdges : e < call.result => r >= CumulativeWeight(e)
           /\ currentNode = graph.edges[call.result].target
           /\ DeclaredWeights = <<10, 10, 80>> =>
                 SelectedPlace = (IF r < 10 THEN 1 ELSE IF r < 20 THEN 2 ELSE 3)

\* The weights 10, 10, 80 and the draw exactly 20: the third edge.
C23_Witness ==
    /\ Rolled
    /\ DeclaredWeights = <<10, 10, 80>>
    /\ call.arg.random = 20
    /\ SelectedPlace = 3
    /\ log = <<LogInit, LogRoll, LogBeat(currentNode)>>

\* C24: each outgoing edge is weighted by its declared weight, 10 only when
\* it declares none: an edge that declares the weight 0 is never selected
\* while another outgoing edge declares a positive weight.
C24_DeclaredZeroIsNeverSelected ==
    Rolled =>
        ~(/\ graph.edges[call.result].hasWeight
          /\ graph.edges[call.result].weight = 0
          /\ \E e \in RolledEdges :
                graph.edges[e].hasWeight /\ graph.edges[e].weight > 0)

(***************************************************************************)
(* Claims about the Graph Analyzer on malformed graphs (checked under      *)
(* SpecMalformed).                                                         *)
(***************************************************************************)
\* C27: isReachable and detectConflicts return a result on every finite
\* graph, with cycles, self-loops, parallel edges, repeated ids, dangling
\* edges or no node at all: a boolean, and a list of at most three conflicts
\* per node and one per edge; the search expands each id at most once.
C27_AnalyzerIsTotal ==
    /\ call.op = "isNodeReachable" =>
          /\ call.result \in BOOLEAN
          /\ \A i \in 1..Len(call.expanded) : \A j \in 1..Len(call.expanded) :
                i # j => call.expanded[i] # call.expanded[j]
    /\ call.op = "detectConflicts" =>
          /\ Len(call.result) <= 3 * Len(graph.nodes) + Len(graph.edges)
          /\ \A k \in 1..Len(call.result) :
                /\ call.result[k].type \in {"unreachable", "dead_end", "contradictory"}
                /\ call.result[k].severity \in {"warning", "error"}

\* Two nodes with the id 1 and a cycle 1 -> 2 -> 1: the search for the id 3
\* expands 1 and 2 once each and ends.
C27_Witness ==
    /\ call.op = "isNodeReachable"
    /\ Len(graph.nodes) = 3
    /\ graph.nodes[1].id = 1 /\ graph.nodes[2].id = 1 /\ graph.nodes[3].id = 2
    /\ Len(graph.edges) = 2
    /\ graph.edges[1].source = 1 /\ graph.edges[1].target = 2
    /\ graph.edges[2].source = 2 /\ graph.edges[2].target = 1
    /\ call.arg = 3
    /\ call.result = FALSE
    /\ call.expanded = <<1, 2>>

(***************************************************************************)
(* The editor (App): the graph is edited by the node and edge handlers     *)
(* while a connection may be being dragged and generateNodeContent         *)
(* promises may be pending. Every handler runs to completion on the state  *)
(* of the latest render; only generateNodeContent spans several events,    *)
(* and the code after its await still sees the graph of the render in      *)
(* which it was called.                                                    *)
(***************************************************************************)
\* The initial graph has the nodes 1..EditorInitialNodes; at most MaxClock
\* ids are created and at most MaxFlights promises are pending at a time.
EditorInitialNodes == 2
MaxClock == 2
MaxFlights == 1

\* `n${Date.now()}`, `e${Date.now()}`: time passes between two events, so
\* every id made is new. Ids are numbers; the initial ones are the smallest.
FreshId(clock) == EditorInitialNodes + clock

\* label: '新建剧情节点' (labels are numbers in the model; 0 is '').
NewNodeLabel == 1

IdsOf(seq) == {seq[i].id : i \in 1..Len(seq)}

\* setGraph(prev => ({ ...prev, edges: prev.edges.filter(e => e.id !== id) }))
\* if (selectedEdgeId === id) setSelectedEdgeId(null)
handleDeleteEdge(id) ==
    /\ graph' = [graph EXCEPT !.edges = SelectSeq(@, LAMBDA e : e.id # id)]
    /\ selectedEdgeId' = IF selectedEdgeId = id THEN 0 ELSE selectedEdgeId
    /\ UNCHANGED selectedNodeId

\* The node goes, and every edge from it or to it; the selection is cleared
\* if it was this node. connectingSourceId is not touched.
handleDeleteNode(id) ==
    /\ graph' = [graph EXCEPT
                    !.nodes = SelectSeq(@, LAMBDA n : n.id # id),
                    !.edges = SelectSeq(@, LAMBDA e : e.source # id /\ e.target # id)]
    /\ selectedNodeId' = IF selectedNodeId = id THEN 0 ELSE selectedNodeId
    /\ UNCHANGED selectedEdgeId

\* nodes: prev.nodes.map(n => n.id === updated.id ? updated : n)
handleUpdateNode(updated, g) ==
    [g EXCEPT !.nodes = [i \in DOMAIN g.nodes |->
                            IF g.nodes[i].id = updated.id THEN updated
                            ELSE g.nodes[i]]]

\* What the editor's handlers never touch.
EditorFrame == UNCHANGED <<heap, simState, call>>

\* The palette's button: a new node with a new id, which becomes selected.
HandleAddNode ==
    /\ now < MaxClock
    /\ now' = now + 1
    /\ graph' = [graph EXCEPT !.nodes =
                    Append(@, [PlainNode(FreshId(now'), FALSE)
                                  EXCEPT !.label = NewNodeLabel])]
    /\ selectedNodeId' = FreshId(now')
    /\ selectedEdgeId' = 0
    /\ UNCHANGED <<connectingSourceId, generatingNodeId, inFlight>>
    /\ EditorFrame

\* The delete button of a node (property panel, database and location views).
HandleDeleteNode(id) ==
    /\ id \in IdsOf(graph.nodes)
    /\ handleDeleteNode(id)
    /\ UNCHANGED <<connectingSourceId, generatingNodeId, inFlight, now>>
    /\ EditorFrame

\* The delete button of an edge.
HandleDeleteEdge(id) ==
    /\ id \in IdsOf(graph.edges)
    /\ handleDeleteEdge(id)
    /\ UNCHANGED <<connectingSourceId, generatingNodeId, inFlight, now>>
    /\ EditorFrame

\* Delete or Backspace outside a text field: the selected node if there is
\* one, else the selected edge if there is one.
HandleKeyDown ==
    /\ IF selectedNodeId # 0 THEN handleDeleteNode(selectedNodeId)
       ELSE IF selectedEdgeId # 0 THEN handleDeleteEdge(selectedEdgeId)
       ELSE UNCHANGED <<graph, selectedNodeId, selectedEdgeId>>
    /\ UNCHANGED <<connectingSourceId, generatingNodeId, inFlight, now>>
    /\ EditorFrame

\* Mouse down on a node: it becomes selected.
HandleMouseDown(id) ==
    /\ id \in IdsOf(graph.nodes)
    /\ selectedNodeId' = id
    /\ selectedEdgeId' = 0
    /\ UNCHANGED <<graph, connectingSourceId, generatingNodeId, inFlight, now>>
    /\ EditorFrame

\* Click on an edge: it becomes selected.
SelectEdge(id) ==
    /\ id \in IdsOf(graph.edges)
    /\ selectedEdgeId' = id
    /\ selectedNodeId' = 0
    /\ UNCHANGED <<graph, connectingSourceId, generatingNodeId, inFlight, now>>
    /\ EditorFrame

\* Mouse down on a node's handle (the event does not reach the node).
StartConnection(id) ==
    /\ id \in IdsOf(graph.nodes)
    /\ connectingSourceId' = id
    /\ UNCHANGED <<graph, selectedNodeId, selectedEdgeId, generatingNodeId,
                   inFlight, now>>
    /\ EditorFrame

\* Mouse down on the target end of an edge: the edge goes and a drag starts
\* from its source.
HandleReconnectTarget(edgeId) ==
    /\ edgeId \in IdsOf(graph.edges)
    /\ LET edge == graph.edges[FirstIndexOfId(graph.edges, edgeId)]
       IN /\ graph' = [graph EXCEPT
                          !.edges = SelectSeq(@, LAMBDA e : e.id # edgeId)]
          /\ connectingSourceId' = edge.source
    /\ UNCHANGED <<selectedNodeId, selectedEdgeId, generatingNodeId, inFlight, now>>
    /\ EditorFrame

\* Mouse down on the source end of an edge: the edge goes and a drag starts
\* from its target.
HandleReconnectSource(edgeId) ==
    /\ edgeId \in IdsOf(graph.edges)
    /\ LET edge == graph.edges[FirstIndexOfId(graph.edges, edgeId)]
       IN /\ graph' = [graph EXCEPT
                          !.edges = SelectSeq(@, LAMBDA e : e.id # edgeId)]
          /\ connectingSourceId' = edge.target
    /\ UNCHANGED <<selectedNodeId, selectedEdgeId, generatingNodeId, inFlight, now>>
    /\ EditorFrame

\* Mouse up on a node while a drag is in progress (the node's onMouseUp,
\* then the window's): an edge from the drag's source to the node unless
\* they are the same or such an edge exists; the drag ends either way.
\* The source is not looked up among the nodes.
EndConnection(targetId) ==
    /\ connectingSourceId # 0
    /\ targetId \in IdsOf(graph.nodes)
    /\ now < MaxClock
    /\ LET exists == \E i \in 1..Len(graph.edges) :
                        /\ graph.edges[i].source = connectingSourceId
                        /\ graph.edges[i].target = targetId
       IN IF connectingSourceId # targetId /\ ~exists
          THEN /\ now' = now + 1
               /\ graph' = [graph EXCEPT !.edges =
                               Append(@, PlainEdge(FreshId(now'),
                                                   connectingSourceId, targetId))]
          ELSE UNCHANGED <<graph, now>>
    /\ connectingSourceId' = 0
    /\ UNCHANGED <<selectedNodeId, selectedEdgeId, generatingNodeId, inFlight>>
    /\ EditorFrame

\* Mouse up anywhere else: the drag is cancelled.
HandleMouseUp ==
    /\ connectingSourceId' = 0
    /\ UNCHANGED <<graph, selectedNodeId, selectedEdgeId, generatingNodeId,
                   inFlight, now>>
    /\ EditorFrame

\* The values the user types for a label, and the fields of the property
\* panel the model follows.
EditorLabels == {7}

\* handleChange(field, value) of the property panel, on the selected node:
\* onUpdate({ ...node, [field]: value }).
HandleChange(field, value) ==
    /\ selectedNodeId \in IdsOf(graph.nodes)
    /\ LET node == graph.nodes[FirstIndexOfId(graph.nodes, selectedNodeId)]
           updated == IF field = "label" THEN [node EXCEPT !.label = value]
                      ELSE [node EXCEPT !.isPoolMember = value]
       IN graph' = handleUpdateNode(updated, graph)
    /\ UNCHANGED editorState
    /\ EditorFrame

\* What generateNodeContent may resolve to: nothing (null, or a rejection),
\* or a partial node: a label or none (0), isPoolMember or none.
GenerateResults ==
    {[ok |-> FALSE, label |-> 0, hasIsPoolMember |-> FALSE, isPoolMember |-> FALSE]}
    \cup {[ok |-> TRUE, label |-> l, hasIsPoolMember |-> h, isPoolMember |-> p] :
             l \in {0, 9}, h \in BOOLEAN, p \in BOOLEAN}

\* handleGenerateNode up to its await: the button of a node is disabled
\* only while generatingNodeId is that node. The promise keeps the graph of
\* this render.
HandleGenerateNode(nodeId) ==
    /\ nodeId \in IdsOf(graph.nodes)
    /\ generatingNodeId # nodeId
    /\ Len(inFlight) < MaxFlights
    /\ generatingNodeId' = nodeId
    /\ inFlight' = Append(inFlight, [nodeId |-> nodeId, graph |-> graph])
    /\ UNCHANGED <<graph, selectedNodeId, selectedEdgeId, connectingSourceId, now>>
    /\ EditorFrame

\* { ...node, label: result.label || node.label, ...,
\*   isPoolMember: result.isPoolMember ?? node.isPoolMember }
GeneratedNode(node, result) ==
    [node EXCEPT !.label = IF result.label # 0 THEN result.label ELSE node.label,
                 !.isPoolMember = IF result.hasIsPoolMember
                                  THEN result.isPoolMember
                                  ELSE node.isPoolMember]

\* handleGenerateNode from its await on, for the k-th pending promise: the
\* node is looked up in the graph the promise kept, completed with the
\* result and handed to handleUpdateNode; finally generatingNodeId is null.
GenerateNodeSettles(k, result) ==
    /\ k \in 1..Len(inFlight)
    /\ LET request == inFlight[k]
           i == FirstIndexOfId(request.graph.nodes, request.nodeId)
       IN /\ IF i # 0 /\ result.ok
             THEN graph' = handleUpdateNode(
                              GeneratedNode(request.graph.nodes[i], result), graph)
             ELSE UNCHANGED graph
          /\ call' = [op |-> "generateNodeContent", arg |-> request.nodeId,
                      result |-> result]
    /\ inFlight' = [j \in 1..(Len(inFlight) - 1) |->
                       IF j < k THEN inFlight[j] ELSE inFlight[j + 1]]
    /\ generatingNodeId' = 0
    /\ UNCHANGED <<selectedNodeId, selectedEdgeId, connectingSourceId, now>>
    /\ UNCHANGED <<heap, simState>>

\* The nodes 1..EditorInitialNodes in a ring of edges, of which the first
\* few are present: no edge dangles.
InitEditor ==
    /\ \E k \in 0..EditorInitialNodes :
          graph = [nodes |-> [i \in 1..EditorInitialNodes |-> PlainNode(i, FALSE)],
                   edges |-> [e \in 1..k |->
                                 PlainEdge(e, e, (e % EditorInitialNodes) + 1)],
                   variables |-> Array(1, <<>>)]
    /\ heap = [objs |-> <<>>, arrays |-> 2]
    /\ InitIdle
    /\ InitEditorState

EditorAnyId == 1..(EditorInitialNodes + MaxClock)

NextEditor ==
    \/ HandleAddNode
    \/ HandleKeyDown
    \/ \E id \in EditorAnyId : HandleDeleteNode(id)
    \/ \E id \in EditorAnyId : HandleDeleteEdge(id)
    \/ \E id \in EditorAnyId : HandleMouseDown(id)
    \/ \E id \in EditorAnyId : SelectEdge(id)
    \/ \E id \in EditorAnyId : StartConnection(id)
    \/ \E id \in EditorAnyId : HandleReconnectTarget(id)
    \/ \E id \in EditorAnyId : HandleReconnectSource(id)
    \/ \E id \in EditorAnyId : EndConnection(id)
    \/ HandleMouseUp

SpecEditor == InitEditor /\ [][NextEditor]_vars

\* The user edits and deletes nodes while generations are pending.
NextGenerate ==
    \/ \E id \in EditorAnyId : HandleMouseDown(id)
    \/ \E value \in EditorLabels : HandleChange("label", value)
    \/ \E value \in BOOLEAN : HandleChange("isPoolMember", value)
    \/ HandleKeyDown
    \/ \E id \in EditorAnyId : HandleDeleteNode(id)
    \/ \E id \in EditorAnyId : HandleGenerateNode(id)
    \/ \E k \in 1..MaxFlights : \E result \in GenerateResults :
          GenerateNodeSettles(k, result)

SpecGenerate == InitEditor /\ [][NextGenerate]_vars

(***************************************************************************)
(* Claims about the editor.                                                *)
(***************************************************************************)
\* C29: after any interleaving of the editor's operations on a graph that
\* had no dangling edge, every edge's source and target are ids of nodes of
\* the graph.
C29_EdgesJoinExistingNodes ==
    \A e \in 1..Len(graph.edges) :
       /\ graph.edges[e].source \in IdsOf(graph.nodes)
       /\ graph.edges[e].target \in IdsOf(graph.nodes)

\* The k-th pending generateNodeContent promise settles in this step.
Settles(k) ==
    /\ k \in 1..Len(inFlight)
    /\ inFlight' = [j \in 1..(Len(inFlight) - 1) |->
                       IF j < k THEN inFlight[j] ELSE inFlight[j + 1]]

\* C30: when a generation settles, the nodes of the graph are the same
\* nodes as before (none comes back), and a field of the generated node
\* that the user changed since the generation started and that the result
\* does not supply keeps the value it had just before.
C30_ResultKeepsConcurrentChanges ==
    [][\A k \in 1..MaxFlights : Settles(k) =>
         LET id == inFlight[k].nodeId
             old == inFlight[k].graph.nodes[
                       FirstIndexOfId(inFlight[k].graph.nodes, id)]
             result == call'.result
             i == FirstIndexOfId(graph.nodes, id)
         IN /\ [n \in DOMAIN graph'.nodes |-> graph'.nodes[n].id]
                  = [n \in DOMAIN graph.nodes |-> graph.nodes[n].id]
            /\ i # 0 =>
                 /\ (graph.nodes[i].label # old.label
                        /\ ~(result.ok /\ result.label # 0))
                       => graph'.nodes[i].label = graph.nodes[i].label
                 /\ (graph.nodes[i].isPoolMember # old.isPoolMember
                        /\ ~(result.ok /\ result.hasIsPoolMember))
                       => graph'.nodes[i].isPoolMember = graph.nodes[i].isPoolMember]_vars
====
